---------------------------- MODULE Spec2Model ----------------------------
(***************************************************************************)
(* Model of the analysis and alerting engine of the finance application:   *)
(* the AlertSystem singleton of backend/alert_system.py, the request       *)
(* handlers of backend/alerts.py that drive it, and the FinancialAnalyzer  *)
(* projections and health scores of backend/financial_analysis.py and      *)
(* backend/financial_analysis_simple.py.                                   *)
(*                                                                         *)
(* Numbers.  Amounts are integers (currency units).  A Python float is an  *)
(* exact rational, a record [num, den] in lowest terms; floating-point     *)
(* rounding is not modelled.  Every division the code executes is recorded *)
(* with its divisor (Guarded, Step), so that a division by zero or by a    *)
(* negative number is visible in the trace of a call.                      *)
(*                                                                         *)
(* Dates.  A calendar date is a record [year, month, day] of the proleptic  *)
(* Gregorian calendar, with the arithmetic of datetime.date, timedelta and *)
(* dateutil.relativedelta.                                                 *)
(***************************************************************************)
EXTENDS Integers, Sequences, FiniteSets, TLC

VARIABLES
    today,      \* the calendar date of the host, what date.today() returns
    store,      \* the transaction store: transactions, limits, goals, recurring
    sys_date,   \* alert_system.current_date (alerts.py:7, alert_system.py:55)
    alerts,     \* alert_system.alerts, the list shared by every request
    req,        \* per concurrent request: its position, its own alerts, its response
    last        \* the last completed call: what it used and what it returned

vars == <<today, store, sys_date, alerts, req, last>>

-----------------------------------------------------------------------------
(* Bounds of the model *)

\* how many calendar days may pass while the process is up
MaxDays == 1
\* largest list index passed to mark_alert_as_read (the smallest is -1)
MaxIndex == 0
\* largest number of months a caller asks calculate_savings_capacity to project
MaxMonths == 3

-----------------------------------------------------------------------------
(* Sequences and sets *)

\* The one element of a singleton set.  TLC evaluates a definition of a LET
\* and an argument of an operator again at each of their uses; a value that
\* is used many times is bound once instead, as the x of
\* The({F(x) : x \in {e}}) or of \E x \in {e} : P(x); <<>> \o f is the
\* function f as the tuple of its values.
The(S) == CHOOSE x \in S : TRUE

Min(a, b) == IF a <= b THEN a ELSE b
Max(a, b) == IF a >= b THEN a ELSE b

RECURSIVE Concat(_, _)
\* the concatenation of the first n sequences of a sequence of sequences
Concat(ss, n) == IF n = 0 THEN <<>> ELSE Concat(ss, n - 1) \o ss[n]

\* the concatenation of a sequence of sequences
Flatten(ss) == The({Concat(v, Len(v)) : v \in {ss}})

RECURSIVE SumFirst(_, _)
SumFirst(s, n) == IF n = 0 THEN 0 ELSE SumFirst(s, n - 1) + s[n]

\* the sum of a sequence of numbers
SumSeq(s) == The({SumFirst(v, Len(v)) : v \in {s}})

-----------------------------------------------------------------------------
(* Exact rationals standing for Python floats *)

RECURSIVE Gcd(_, _)
Gcd(a, b) == IF b = 0 THEN a ELSE The({Gcd(x, y) : x \in {b}, y \in {a % b}})

Abs(n) == IF n < 0 THEN -n ELSE n

\* n / d in lowest terms with a positive denominator, for integers n, d; a
\* zero denominator (a division by zero) is kept as it is
Reduced(n, d) ==
    IF d = 0 THEN [num |-> n, den |-> 0]
    ELSE LET g == Gcd(Abs(n), Abs(d))
             sgn == IF d < 0 THEN -1 ELSE 1
         IN [num |-> sgn * (n \div g), den |-> sgn * (d \div g)]

Frac(n, d) == The({Reduced(x, y) : x \in {n}, y \in {d}})
Num(n) == [num |-> n, den |-> 1]
FAdd(a, b) ==
    The({Frac(x.num * y.den + y.num * x.den, x.den * y.den) : x \in {a}, y \in {b}})
FSub(a, b) ==
    The({Frac(x.num * y.den - y.num * x.den, x.den * y.den) : x \in {a}, y \in {b}})
FMul(a, b) == The({Frac(x.num * y.num, x.den * y.den) : x \in {a}, y \in {b}})
\* a / b
FDiv(a, b) == The({Frac(x.num * y.den, x.den * y.num) : x \in {a}, y \in {b}})
\* comparisons, for operands with positive denominators
FLess(a, b) == \E x \in {a}, y \in {b} : x.num * y.den < y.num * x.den
FLeq(a, b) == \E x \in {a}, y \in {b} : x.num * y.den <= y.num * x.den
FMax(a, b) == The({IF FLess(x, y) THEN y ELSE x : x \in {a}, y \in {b}})
FMin(a, b) == The({IF FLess(y, x) THEN y ELSE x : x \in {a}, y \in {b}})
FPos(a) == \E x \in {a} : x.num > 0 /\ x.den > 0
RECURSIVE FSum(_)
FSum(s) ==
    IF s = <<>> THEN Num(0)
    ELSE The({FAdd(x, y) : x \in {Head(s)}, y \in {FSum(Tail(s))}})

-----------------------------------------------------------------------------
(* Calendar dates: datetime.date, timedelta, relativedelta *)

Date(y, m, d) == [year |-> y, month |-> m, day |-> d]

IsLeap(y) == (y % 4 = 0 /\ y % 100 # 0) \/ y % 400 = 0

DaysInMonth(y, m) ==
    IF m \in {1, 3, 5, 7, 8, 10, 12} THEN 31
    ELSE IF m \in {4, 6, 9, 11} THEN 30
    ELSE IF IsLeap(y) THEN 29 ELSE 28

RECURSIVE DaysBeforeMonth(_, _)
DaysBeforeMonth(y, m) ==
    IF m = 1 THEN 0 ELSE DaysBeforeMonth(y, m - 1) + DaysInMonth(y, m - 1)

\* date.toordinal(): days since 0001-01-01, that day being 1
ToOrdinal(d) ==
    LET y == d.year - 1 IN
    y * 365 + (y \div 4) - (y \div 100) + (y \div 400)
        + DaysBeforeMonth(d.year, d.month) + d.day

\* (a - b).days
DaysBetween(a, b) == ToOrdinal(a) - ToOrdinal(b)

\* a < b and a <= b: dates compare as the tuples (year, month, day)
DateLess(a, b) ==
    \/ a.year < b.year
    \/ a.year = b.year /\ a.month < b.month
    \/ a.year = b.year /\ a.month = b.month /\ a.day < b.day
DateLeq(a, b) == a = b \/ DateLess(a, b)

NextDay(d) ==
    IF d.day < DaysInMonth(d.year, d.month) THEN Date(d.year, d.month, d.day + 1)
    ELSE IF d.month < 12 THEN Date(d.year, d.month + 1, 1)
    ELSE Date(d.year + 1, 1, 1)

PrevDay(d) ==
    IF d.day > 1 THEN Date(d.year, d.month, d.day - 1)
    ELSE IF d.month > 1 THEN Date(d.year, d.month - 1, DaysInMonth(d.year, d.month - 1))
    ELSE Date(d.year - 1, 12, 31)

RECURSIVE AddDays(_, _)
\* d + timedelta(days=n)
AddDays(d, n) ==
    IF n = 0 THEN d
    ELSE IF n > 0 THEN The({AddDays(x, n - 1) : x \in {NextDay(d)}})
    ELSE The({AddDays(x, n + 1) : x \in {PrevDay(d)}})

\* d + relativedelta(months=n): the day is cut to the length of the month
AddMonths(d, n) ==
    LET t == (d.year * 12 + (d.month - 1)) + n
        y == t \div 12
        m == (t % 12) + 1
    IN Date(y, m, Min(d.day, DaysInMonth(y, m)))

\* the characters "0" to "9"
Digit(n) == <<"0", "1", "2", "3", "4", "5", "6", "7", "8", "9">>[n + 1]

RECURSIVE Decimal(_)
\* str(n) for n >= 0, as the sequence of its characters
Decimal(n) == IF n < 10 THEN <<Digit(n)>> ELSE Append(Decimal(n \div 10), Digit(n % 10))

\* the key f"{year}-{month:02d}", as the sequence of its characters
MonthKey(y, m) ==
    Decimal(y) \o <<"-">> \o (IF m < 10 THEN <<"0">> ELSE <<>>) \o Decimal(m)

\* n as w digits, padded with zeros on the left
Padded(n, w) ==
    LET digits == Decimal(n)
    IN [i \in 1..(w - Len(digits)) |-> "0"] \o digits

\* date.isoformat(): "YYYY-MM-DD", as the sequence of its characters
IsoFormat(d) ==
    Padded(d.year, 4) \o <<"-">> \o Padded(d.month, 2) \o <<"-">> \o Padded(d.day, 2)

-----------------------------------------------------------------------------
(* Enumerations (alert_system.py:11-25, financial.py:7-9) *)

AlertType == {"SPENDING_LIMIT_WARNING", "SPENDING_LIMIT_EXCEEDED",
              "GOAL_BEHIND_SCHEDULE", "GOAL_DEADLINE_APPROACHING",
              "LOW_BALANCE_PROJECTION", "UNUSUAL_SPENDING",
              "BILL_REMINDER", "POSITIVE_TREND"}

AlertPriority == {"LOW", "MEDIUM", "HIGH", "CRITICAL"}

\* AlertType.X.value
AlertTypeValue(t) ==
    CASE t = "SPENDING_LIMIT_WARNING" -> "spending_limit_warning"
      [] t = "SPENDING_LIMIT_EXCEEDED" -> "spending_limit_exceeded"
      [] t = "GOAL_BEHIND_SCHEDULE" -> "goal_behind_schedule"
      [] t = "GOAL_DEADLINE_APPROACHING" -> "goal_deadline_approaching"
      [] t = "LOW_BALANCE_PROJECTION" -> "low_balance_projection"
      [] t = "UNUSUAL_SPENDING" -> "unusual_spending"
      [] t = "BILL_REMINDER" -> "bill_reminder"
      [] t = "POSITIVE_TREND" -> "positive_trend"

\* AlertPriority.X.value
AlertPriorityValue(p) ==
    CASE p = "LOW" -> "low"
      [] p = "MEDIUM" -> "medium"
      [] p = "HIGH" -> "high"
      [] p = "CRITICAL" -> "critical"

-----------------------------------------------------------------------------
(* The transaction store (financial.py) and its queries                    *)
(*                                                                         *)
(* store.transactions : set of [id, amount, transaction_type,              *)
(*                              transaction_date, category_id]             *)
(* store.limits       : sequence of [category_id, monthly_limit, month_year] *)
(* store.goals        : sequence of [id, target_amount, current_amount,    *)
(*                              target_date, created_at, is_active]        *)
(* store.recurring    : sequence of [id, amount, transaction_type,         *)
(*                              frequency, start_date, end_date,           *)
(*                              next_occurrence, is_active, category_id]   *)
(* A sequence is the order in which query(...).all() returns the rows.     *)

\* the value of a request argument that is not sent
None == "None"

\* the value of a date column that holds NULL (end_date): no date has year 0
NullDate == [year |-> 0, month |-> 0, day |-> 0]

Transaction(i, amt, ty, dt, cat) ==
    [id |-> i, amount |-> amt, transaction_type |-> ty,
     transaction_date |-> dt, category_id |-> cat]

SpendingLimit(cat, lim, my) ==
    [category_id |-> cat, monthly_limit |-> lim, month_year |-> my]

Goal(i, target, current, tdate, cdate, active) ==
    [id |-> i, target_amount |-> target, current_amount |-> current,
     target_date |-> tdate, created_at |-> cdate, is_active |-> active]

RecurringTransaction(i, amt, ty, freq, sdate, edate, nxt, active, cat) ==
    [id |-> i, amount |-> amt, transaction_type |-> ty, frequency |-> freq,
     start_date |-> sdate, end_date |-> edate, next_occurrence |-> nxt,
     is_active |-> active, category_id |-> cat]

RECURSIVE SumAmounts(_)
\* func.sum(Transaction.amount) over the rows of a set (0 when there is none:
\* the callers turn SQL's NULL into 0.0)
SumAmounts(S) ==
    IF S = {} THEN 0
    ELSE The({t.amount + SumAmounts(rest) : t \in {The(S)}, rest \in {S \ {The(S)}}})

\* the rows with from <= transaction_date <= to and the given type
InPeriod(s, ty, from, to) ==
    {t \in s.transactions :
        /\ DateLeq(from, t.transaction_date)
        /\ DateLeq(t.transaction_date, to)
        /\ t.transaction_type = ty}

-----------------------------------------------------------------------------
(* Alerts (alert_system.py:27-49) *)

\* Alert.__init__: every alert is created unread.  The message (a formatting
\* of the same data) and created_at (a timestamp) are left out.
Alert(type, prio, ttl, dat, url) ==
    [alert_type |-> type, priority |-> prio, title |-> ttl, data |-> dat,
     action_url |-> url, is_read |-> FALSE]

\* Alert.to_dict: the enumeration members become their values
ToDict(a) ==
    [type |-> AlertTypeValue(a.alert_type),
     priority |-> AlertPriorityValue(a.priority),
     title |-> a.title, data |-> a.data, action_url |-> a.action_url,
     is_read |-> a.is_read]

\* [alert.to_dict() for alert in l]
ToDicts(l) == [i \in 1..Len(l) |-> ToDict(l[i])]

\* What one rule, or one iteration of a rule's loop, does: the alerts it
\* appends, in order, and the divisors of the divisions it executes.
Step(as, ds) == [alerts |-> as, divs |-> ds]

\* the effect of a loop: the iterations' alerts in order, their divisors together
Steps(ss) ==
    The({Step(Flatten([i \in 1..Len(v) |-> v[i].alerts]),
              UNION {v[i].divs : i \in 1..Len(v)}) : v \in {ss}})

\* "n / d if guard else dflt": the value, and the divisor when the division
\* runs.  A division by zero raises ZeroDivisionError: it has a divisor and no
\* quotient, val is not read then.
Guarded(guard, n, d, dflt) ==
    IF guard
    THEN The({[val |-> IF y.num = 0 THEN Num(0) ELSE FDiv(x, y), div |-> {y}] :
                 x \in {n}, y \in {d}})
    ELSE [val |-> dflt, div |-> {}]

-----------------------------------------------------------------------------
(* AlertSystem._check_spending_limits (alert_system.py:82-149) *)

\* current_spent: the category's expenses from the first of the month to d
CurrentSpent(s, l, d) ==
    SumAmounts({t \in InPeriod(s, "EXPENSE", Date(d.year, d.month, 1), d) :
                    t.category_id = l.category_id})

\* the percentage without its "if limit.monthly_limit > 0"
PercentageUsedUnguarded(spent, l) ==
    LET q == Guarded(TRUE, Num(spent), Num(l.monthly_limit), Num(0))
    IN [val |-> FMul(q.val, Num(100)), div |-> q.div]

\* (current_spent / limit.monthly_limit) * 100 if limit.monthly_limit > 0 else 0
PercentageUsed(spent, l) ==
    LET q == Guarded(l.monthly_limit > 0, Num(spent), Num(l.monthly_limit), Num(0))
    IN [val |-> FMul(q.val, Num(100)), div |-> q.div]

\* an "elif" that warns above 80% only, not at 80%
LimitAlertsAbove80(l, current_spent) ==
    LET pct == PercentageUsed(current_spent, l)
    IN IF current_spent > l.monthly_limit
       THEN Step(<<Alert("SPENDING_LIMIT_EXCEEDED", "HIGH", "Limite excedido",
                         [category_id |-> l.category_id,
                          limit |-> l.monthly_limit,
                          spent |-> current_spent,
                          excess |-> current_spent - l.monthly_limit,
                          percentage |-> pct.val],
                         "/transactions?category=")>>, pct.div)
       ELSE IF FLess(Num(80), pct.val)
       THEN Step(<<Alert("SPENDING_LIMIT_WARNING", "MEDIUM", "Atencao",
                         [category_id |-> l.category_id,
                          limit |-> l.monthly_limit,
                          spent |-> current_spent,
                          remaining |-> l.monthly_limit - current_spent,
                          percentage |-> pct.val],
                         "/transactions?category=")>>, pct.div)
       ELSE Step(<<>>, pct.div)

\* the "if / elif" of an iteration, for the amount the query returned
LimitAlerts(l, current_spent) ==
    LET pct == PercentageUsed(current_spent, l)
    IN IF current_spent > l.monthly_limit
       THEN Step(<<Alert("SPENDING_LIMIT_EXCEEDED", "HIGH", "Limite excedido",
                         [category_id |-> l.category_id,
                          limit |-> l.monthly_limit,
                          spent |-> current_spent,
                          excess |-> current_spent - l.monthly_limit,
                          percentage |-> pct.val],
                         "/transactions?category=")>>, pct.div)
       ELSE IF FLeq(Num(80), pct.val)
       THEN Step(<<Alert("SPENDING_LIMIT_WARNING", "MEDIUM", "Atencao",
                         [category_id |-> l.category_id,
                          limit |-> l.monthly_limit,
                          spent |-> current_spent,
                          remaining |-> l.monthly_limit - current_spent,
                          percentage |-> pct.val],
                         "/transactions?category=")>>, pct.div)
       ELSE Step(<<>>, pct.div)

\* one iteration of the loop over the limits
CheckLimit(s, l, d) ==
    The({LimitAlerts(l, current_spent) : current_spent \in {CurrentSpent(s, l, d)}})

\* the limits of the month of d, in the order the query returns them
LimitsOfMonth(s, d) ==
    LET IsCurrent(l) == l.month_year = MonthKey(d.year, d.month)
    IN SelectSeq(s.limits, IsCurrent)

CheckSpendingLimits(s, d) ==
    The({Steps([i \in 1..Len(limits) |-> CheckLimit(s, limits[i], d)]) :
            limits \in {LimitsOfMonth(s, d)}})

-----------------------------------------------------------------------------
(* AlertSystem._check_goals_progress (alert_system.py:151-207, 405-408) *)

\* days / 30.44
DaysToMonths(days) == Frac(days * 25, 761)

\* _calculate_total_months: max(1, total_days / 30.44)
CalculateTotalMonths(g) ==
    FMax(Num(1), DaysToMonths(DaysBetween(g.target_date, g.created_at)))

\* (goal.current_amount / goal.target_amount) if goal.target_amount > 0 else 0
ActualProgress(g) ==
    Guarded(g.target_amount > 0, Num(g.current_amount), Num(g.target_amount), Num(0))

\* a first "if" that takes a goal due today for one due within 30 days
DeadlineAlertsDueToday(g, days_remaining) ==
    IF 0 <= days_remaining /\ days_remaining <= 30
    THEN The({IF FLess(FMul(q.val, Num(100)), Num(90))
              THEN Step(<<Alert("GOAL_DEADLINE_APPROACHING", "HIGH",
                                "Meta proxima do prazo",
                                [goal_id |-> g.id,
                                 target_amount |-> g.target_amount,
                                 current_amount |-> g.current_amount,
                                 progress_percentage |-> FMul(q.val, Num(100)),
                                 days_remaining |-> days_remaining],
                                "/goals")>>, q.div)
              ELSE Step(<<>>, q.div) : q \in {ActualProgress(g)}})
    ELSE Step(<<>>, {})

\* the first "if" of an iteration: the deadline is within 30 days
DeadlineAlerts(g, days_remaining) ==
    IF 0 < days_remaining /\ days_remaining <= 30
    THEN The({IF FLess(FMul(q.val, Num(100)), Num(90))
              THEN Step(<<Alert("GOAL_DEADLINE_APPROACHING", "HIGH",
                                "Meta proxima do prazo",
                                [goal_id |-> g.id,
                                 target_amount |-> g.target_amount,
                                 current_amount |-> g.current_amount,
                                 progress_percentage |-> FMul(q.val, Num(100)),
                                 days_remaining |-> days_remaining],
                                "/goals")>>, q.div)
              ELSE Step(<<>>, q.div) : q \in {ActualProgress(g)}})
    ELSE Step(<<>>, {})

\* a second "if" without the tolerance of 10%
ScheduleAlertsNoTolerance(g, months_remaining) ==
    IF FPos(months_remaining)
    THEN The({LET ideal_progress == FSub(Num(1), FDiv(months_remaining, total_months))
                  actual_progress == q.val
                  amount_needed == g.target_amount - g.current_amount
                  m == Guarded(FPos(months_remaining), Num(amount_needed),
                               months_remaining, Num(amount_needed))
              IN IF FLess(actual_progress, ideal_progress)
                 THEN Step(<<Alert("GOAL_BEHIND_SCHEDULE", "MEDIUM", "Meta atrasada",
                                   [goal_id |-> g.id,
                                    ideal_progress |-> FMul(ideal_progress, Num(100)),
                                    actual_progress |-> FMul(actual_progress, Num(100)),
                                    monthly_needed |-> m.val,
                                    months_remaining |-> months_remaining],
                                   "/goals")>>,
                           {total_months} \cup q.div \cup m.div)
                 ELSE Step(<<>>, {total_months} \cup q.div) :
                 total_months \in {CalculateTotalMonths(g)}, q \in {ActualProgress(g)}})
    ELSE Step(<<>>, {})

\* the second "if" of an iteration: the goal is behind its ideal schedule
ScheduleAlerts(g, months_remaining) ==
    IF FPos(months_remaining)
    THEN The({LET ideal_progress == FSub(Num(1), FDiv(months_remaining, total_months))
                  actual_progress == q.val
                  amount_needed == g.target_amount - g.current_amount
                  m == Guarded(FPos(months_remaining), Num(amount_needed),
                               months_remaining, Num(amount_needed))
              IN IF FLess(actual_progress, FSub(ideal_progress, Frac(1, 10)))
                 THEN Step(<<Alert("GOAL_BEHIND_SCHEDULE", "MEDIUM", "Meta atrasada",
                                   [goal_id |-> g.id,
                                    ideal_progress |-> FMul(ideal_progress, Num(100)),
                                    actual_progress |-> FMul(actual_progress, Num(100)),
                                    monthly_needed |-> m.val,
                                    months_remaining |-> months_remaining],
                                   "/goals")>>,
                           {total_months} \cup q.div \cup m.div)
                 ELSE Step(<<>>, {total_months} \cup q.div) :
                 total_months \in {CalculateTotalMonths(g)}, q \in {ActualProgress(g)}})
    ELSE Step(<<>>, {})

\* an iteration whose second "if" is an "elif" of the first: a goal that got
\* the deadline alert gets no other
CheckGoalFirstAlertOnly(g, d) ==
    The({IF deadline.alerts # <<>> THEN deadline
         ELSE Steps(<<deadline,
                      ScheduleAlerts(g, FMax(Num(0), DaysToMonths(days_remaining)))>>) :
            days_remaining \in {DaysBetween(g.target_date, d)},
            deadline \in {DeadlineAlerts(g, DaysBetween(g.target_date, d))}})

\* one iteration of the loop over the active goals: days_remaining and
\* months_remaining = max(0, days_remaining / 30.44), then the two "if"s
CheckGoal(g, d) ==
    The({Steps(<<DeadlineAlerts(g, days_remaining),
                 ScheduleAlerts(g, FMax(Num(0), DaysToMonths(days_remaining)))>>) :
            days_remaining \in {DaysBetween(g.target_date, d)}})

\* query(Goal).filter(Goal.is_active == True).all()
ActiveGoals(s) == LET IsActive(g) == g.is_active IN SelectSeq(s.goals, IsActive)

CheckGoalsProgress(s, d) ==
    The({Steps([i \in 1..Len(goals) |-> CheckGoal(goals[i], d)]) :
            goals \in {ActiveGoals(s)}})

-----------------------------------------------------------------------------
(* FinancialAnalyzer of financial_analysis.py: projections.  cd is the     *)
(* analyzer's current_date, captured by its constructor (lines 14-17).     *)

\* an evaluator that takes a yearly item for a monthly one
ShouldOccurEveryMonth(r, year, month) ==
    IF r.frequency = "monthly" THEN TRUE
    ELSE IF r.frequency = "yearly" THEN TRUE
    ELSE IF r.frequency = "weekly" THEN TRUE
    ELSE FALSE

\* _should_occur_in_month (lines 321-330)
ShouldOccurInMonth(r, year, month) ==
    IF r.frequency = "monthly" THEN TRUE
    ELSE IF r.frequency = "yearly" THEN r.start_date.month = month
    ELSE IF r.frequency = "weekly" THEN TRUE
    ELSE FALSE

\* the rows of _get_recurring_expenses_for_month / _get_recurring_income_for_month
\* (lines 279-289, 302-312)
RecurringInWindow(s, ty, year, month) ==
    LET target_date == Date(year, month, 1)
        InWindow(r) ==
            /\ r.is_active
            /\ r.transaction_type = ty
            /\ DateLeq(r.start_date, target_date)
            /\ (r.end_date = NullDate \/ DateLeq(target_date, r.end_date))
    IN SelectSeq(s.recurring, InWindow)

\* _get_recurring_expenses_for_month / _get_recurring_income_for_month
\* (lines 275-319): the two differ in the transaction type only
GetRecurringForMonth(s, ty, year, month) ==
    LET rows == RecurringInWindow(s, ty, year, month)
    IN SumSeq([i \in 1..Len(rows) |->
                  IF ShouldOccurInMonth(rows[i], year, month)
                  THEN rows[i].amount ELSE 0])

\* the total of one calendar month of one year (lines 340-348, 362-370)
MonthTotal(s, ty, year, month) ==
    SumAmounts({t \in s.transactions :
                   /\ t.transaction_date.year = year
                   /\ t.transaction_date.month = month
                   /\ t.transaction_type = ty})

\* _get_historical_average_expenses / _get_historical_average_income
\* (lines 332-375): the years are counted back from the analyzer's current
\* year; a year whose total is 0 or NULL is skipped ("if total:")
GetHistoricalAverage(s, cd, ty, target_month) ==
    LET NonZero(x) == x # 0
    IN The({Guarded(historical_data # <<>>, Num(SumSeq(historical_data)),
                    Num(Len(historical_data)), Num(0)) :
               historical_data \in
                   {SelectSeq([o \in 1..3 |->
                              MonthTotal(s, ty, cd.year - o, target_month)],
                           NonZero)}})

\* _combine_projections (lines 377-383)
CombineProjections(recurring, historical) ==
    The({IF r > 0 THEN FAdd(Num(r), FMul(h, Frac(3, 10))) ELSE h :
            r \in {recurring}, h \in {historical}})

\* A dict is the sequence of its items [key, value] in insertion order.  The
\* month keys a projection loop inserts are distinct (the offsets 1..months
\* reach distinct months while months <= 12), so no insertion overwrites.

\* d[key], for a key of d
DictGet(d, key) == d[CHOOSE i \in 1..Len(d) : d[i].key = key].value

\* project_future_expenses (lines 101-129): the entry of month_offset n.
\* The per-category breakdown is left out: no total is computed from it.
ExpenseProjection(s, cd, n) ==
    The({[key |-> MonthKey(target_date.year, target_date.month),
          value |-> [year |-> target_date.year,
                     month |-> target_date.month,
                     month_name |-> target_date.month,
                     recurring_expenses |-> recurring_expenses,
                     historical_average |-> h.val,
                     projected_total |-> CombineProjections(recurring_expenses, h.val),
                     divs |-> h.div]] :
            target_date \in {AddMonths(cd, n)},
            recurring_expenses \in
                {GetRecurringForMonth(s, "EXPENSE", AddMonths(cd, n).year,
                                      AddMonths(cd, n).month)},
            h \in {GetHistoricalAverage(s, cd, "EXPENSE", AddMonths(cd, n).month)}})

ProjectFutureExpenses(s, cd, months_ahead) ==
    [n \in 1..months_ahead |-> ExpenseProjection(s, cd, n)]

\* project_future_income (lines 131-157): the entry of month_offset n
IncomeProjection(s, cd, n) ==
    The({[key |-> MonthKey(target_date.year, target_date.month),
          value |-> [year |-> target_date.year,
                     month |-> target_date.month,
                     month_name |-> target_date.month,
                     recurring_income |-> recurring_income,
                     historical_average |-> h.val,
                     projected_total |-> FMax(Num(recurring_income), h.val),
                     divs |-> h.div]] :
            target_date \in {AddMonths(cd, n)},
            recurring_income \in
                {GetRecurringForMonth(s, "INCOME", AddMonths(cd, n).year,
                                      AddMonths(cd, n).month)},
            h \in {GetHistoricalAverage(s, cd, "INCOME", AddMonths(cd, n).month)}})

ProjectFutureIncome(s, cd, months_ahead) ==
    [n \in 1..months_ahead |-> IncomeProjection(s, cd, n)]

\* an entry whose savings_rate is the fraction, not the percentage
SavingsOfMonthAsFraction(e, inc) ==
    The({[key |-> e.key,
          value |-> [month |-> e.value.month_name,
                     year |-> e.value.year,
                     projected_income |-> inc.projected_total,
                     projected_expenses |-> e.value.projected_total,
                     projected_savings |-> monthly_savings,
                     savings_rate |-> rate.val,
                     divs |-> e.value.divs \cup inc.divs \cup rate.div]] :
            monthly_savings \in {FSub(inc.projected_total, e.value.projected_total)},
            rate \in {Guarded(FPos(inc.projected_total),
                              FSub(inc.projected_total, e.value.projected_total),
                              inc.projected_total, Num(0))}})

\* the entry calculate_savings_capacity builds from the two projections of
\* a month (lines 166-179)
SavingsOfMonth(e, inc) ==
    The({[key |-> e.key,
          value |-> [month |-> e.value.month_name,
                     year |-> e.value.year,
                     projected_income |-> inc.projected_total,
                     projected_expenses |-> e.value.projected_total,
                     projected_savings |-> monthly_savings,
                     savings_rate |-> FMul(rate.val, Num(100)),
                     divs |-> e.value.divs \cup inc.divs \cup rate.div]] :
            monthly_savings \in {FSub(inc.projected_total, e.value.projected_total)},
            rate \in {Guarded(FPos(inc.projected_total),
                              FSub(inc.projected_total, e.value.projected_total),
                              inc.projected_total, Num(0))}})

\* the loop of calculate_savings_capacity (lines 164-179): one entry per key
\* of the expense projection, in its order; income_projections[month_key] is
\* read with the same key
SavingsCapacityOf(expense_projections, income_projections) ==
    [i \in 1..Len(expense_projections) |->
        The({SavingsOfMonth(e, inc) :
                e \in {expense_projections[i]},
                inc \in {DictGet(income_projections, expense_projections[i].key)}})]

\* calculate_savings_capacity (lines 159-181)
CalculateSavingsCapacity(s, cd, months_ahead) ==
    The({SavingsCapacityOf(expense_projections, income_projections) :
            expense_projections \in {<<>> \o ProjectFutureExpenses(s, cd, months_ahead)},
            income_projections \in {<<>> \o ProjectFutureIncome(s, cd, months_ahead)}})

-----------------------------------------------------------------------------
(* AlertSystem._check_balance_projections (alert_system.py:209-235).       *)
(* The analyzer is constructed inside the rule: t is the date its          *)
(* constructor reads, the host's date at that moment.                      *)

\* the deficit months of the projection, as positions in its order
DeficitMonths(sc) == {i \in 1..Len(sc) : FLess(sc[i].value.projected_savings, Num(0))}

\* the loop without its break: every deficit month
EveryDeficit(sc) == DeficitMonths(sc)

\* the loop with its break: the first deficit month in iteration order
FirstDeficit(sc) ==
    The({{i \in deficits : \A j \in deficits : i <= j} : deficits \in {DeficitMonths(sc)}})

\* a deficit alert of critical priority
LowBalanceAlertCritical(data) ==
    Alert("LOW_BALANCE_PROJECTION", "CRITICAL", "Saldo negativo projetado",
          [month |-> data.month,
           year |-> data.year,
           projected_income |-> data.projected_income,
           projected_expenses |-> data.projected_expenses,
           projected_deficit |->
               IF FLess(data.projected_savings, Num(0))
               THEN FSub(Num(0), data.projected_savings)
               ELSE data.projected_savings],
          "/projections")

\* the alert of a deficit month (lines 219-233)
LowBalanceAlert(data) ==
    Alert("LOW_BALANCE_PROJECTION", "HIGH", "Saldo negativo projetado",
          [month |-> data.month,
           year |-> data.year,
           projected_income |-> data.projected_income,
           projected_expenses |-> data.projected_expenses,
           projected_deficit |->
               IF FLess(data.projected_savings, Num(0))
               THEN FSub(Num(0), data.projected_savings)
               ELSE data.projected_savings],
          "/projections")

CheckBalanceProjections(s, t) ==
    The({Step(Flatten([i \in 1..Len(savings_capacity) |->
                         IF i \in FirstDeficit(savings_capacity)
                         THEN <<LowBalanceAlert(savings_capacity[i].value)>>
                         ELSE <<>>]),
              UNION {savings_capacity[i].value.divs : i \in 1..Len(savings_capacity)}) :
            savings_capacity \in {<<>> \o CalculateSavingsCapacity(s, t, 3)}})

-----------------------------------------------------------------------------
(* AlertSystem._check_unusual_spending (alert_system.py:237-284) *)

\* func.avg(Transaction.amount) over the rows of a set, "or 0.0" when there
\* is none: the mean amount of a row
AvgAmounts(S) ==
    The({IF rows = {} THEN Num(0) ELSE Frac(SumAmounts(rows), Cardinality(rows)) :
            rows \in {S}})

\* an "if" that fires at 1.5 times the average already
UnusualSpendingAlertsFromThreshold(recent_expenses, historical_weekly_avg) ==
    IF /\ FLeq(FMul(historical_weekly_avg, Frac(3, 2)), Num(recent_expenses))
       /\ FPos(historical_weekly_avg)
    THEN The({Step(<<Alert("UNUSUAL_SPENDING", "MEDIUM", "Gastos acima do normal",
                           [recent_expenses |-> recent_expenses,
                            historical_average |-> historical_weekly_avg,
                            excess |-> FSub(Num(recent_expenses), historical_weekly_avg),
                            percentage_increase |->
                                FMul(FSub(q.val, Num(1)), Num(100))],
                           "/transactions")>>,
                   q.div) :
                 q \in {Guarded(TRUE, Num(recent_expenses), historical_weekly_avg,
                                Num(0))}})
    ELSE Step(<<>>, {})

\* the "if" of the rule, for the two amounts the queries returned
UnusualSpendingAlerts(recent_expenses, historical_weekly_avg) ==
    IF /\ FLess(FMul(historical_weekly_avg, Frac(3, 2)), Num(recent_expenses))
       /\ FPos(historical_weekly_avg)
    THEN \* the division is inside the "if"
         The({Step(<<Alert("UNUSUAL_SPENDING", "MEDIUM", "Gastos acima do normal",
                           [recent_expenses |-> recent_expenses,
                            historical_average |-> historical_weekly_avg,
                            excess |-> FSub(Num(recent_expenses), historical_weekly_avg),
                            percentage_increase |->
                                FMul(FSub(q.val, Num(1)), Num(100))],
                           "/transactions")>>,
                   q.div) :
                 q \in {Guarded(TRUE, Num(recent_expenses), historical_weekly_avg,
                                Num(0))}})
    ELSE Step(<<>>, {})

CheckUnusualSpending(s, d) ==
    The({UnusualSpendingAlerts(
             SumAmounts(InPeriod(s, "EXPENSE", week_ago, d)),
             FMul(AvgAmounts({t \in s.transactions :
                                /\ DateLeq(three_months_ago, t.transaction_date)
                                /\ DateLess(t.transaction_date, week_ago)
                                /\ t.transaction_type = "EXPENSE"}),
                  Num(7))) :
            week_ago \in {AddDays(d, -7)}, three_months_ago \in {AddMonths(d, -3)}})

-----------------------------------------------------------------------------
(* AlertSystem._check_bill_reminders (alert_system.py:286-319) *)

\* a query that leaves out the rows due on next_week itself
DueRecurringBeforeNextWeek(s, d, next_week) ==
    LET Due(r) ==
            /\ r.is_active
            /\ r.transaction_type = "EXPENSE"
            /\ DateLess(r.next_occurrence, next_week)
            /\ DateLeq(d, r.next_occurrence)
    IN SelectSeq(s.recurring, Due)

\* the active recurring expenses due from d to next_week, in query order
DueRecurring(s, d, next_week) ==
    LET Due(r) ==
            /\ r.is_active
            /\ r.transaction_type = "EXPENSE"
            /\ DateLeq(r.next_occurrence, next_week)
            /\ DateLeq(d, r.next_occurrence)
    IN SelectSeq(s.recurring, Due)

CheckBillReminders(s, d) ==
    The({Step([i \in 1..Len(recurring_transactions) |->
                 LET transaction == recurring_transactions[i]
                 IN Alert("BILL_REMINDER", "LOW", "Lembrete",
                          [transaction_id |-> transaction.id,
                           amount |-> transaction.amount,
                           due_date |-> IsoFormat(transaction.next_occurrence),
                           days_until |-> DaysBetween(transaction.next_occurrence, d)],
                          "/transactions")],
              {}) :
            recurring_transactions \in {DueRecurring(s, d, AddDays(d, 7))}})

-----------------------------------------------------------------------------
(* AlertSystem._check_positive_trends (alert_system.py:321-366, 410-434) *)

\* _get_month_income, _get_month_expenses: the total of a period and a type
GetMonthAmount(s, ty, start_date, end_date) ==
    SumAmounts(InPeriod(s, ty, start_date, end_date))

\* the "if" of the rule, for the savings of the two windows
PositiveTrendAlerts(current_savings, prev_savings) ==
    IF current_savings > prev_savings /\ prev_savings > 0
    THEN The({Step(<<Alert("POSITIVE_TREND", "LOW", "Parabens! Economia melhorou",
                           [current_savings |-> current_savings,
                            previous_savings |-> prev_savings,
                            improvement |-> current_savings - prev_savings,
                            improvement_percentage |->
                                IF prev_savings > 0
                                THEN FMul(FSub(q.val, Num(1)), Num(100))
                                ELSE Num(0)],
                           "/dashboard")>>,
                   q.div) :
                 q \in {Guarded(prev_savings > 0, Num(current_savings),
                                Num(prev_savings), Num(0))}})
    ELSE Step(<<>>, {})

CheckPositiveTrends(s, d) ==
    LET start_of_month == Date(d.year, d.month, 1)
        prev_month == IF d.month = 1 THEN 12 ELSE d.month - 1
        prev_year == IF d.month = 1 THEN d.year - 1 ELSE d.year
        days_in_current_month == d.day
        prev_month_start == Date(prev_year, prev_month, 1)
        prev_month_end == Date(prev_year, prev_month, Min(days_in_current_month, 28))
    IN The({PositiveTrendAlerts(current_savings, prev_savings) :
               current_savings \in
                   {GetMonthAmount(s, "INCOME", start_of_month, d)
                        - GetMonthAmount(s, "EXPENSE", start_of_month, d)},
               prev_savings \in
                   {GetMonthAmount(s, "INCOME", prev_month_start, prev_month_end)
                        - GetMonthAmount(s, "EXPENSE", prev_month_start,
                                         prev_month_end)}})

-----------------------------------------------------------------------------
(* AlertSystem: the queries on the list (alert_system.py:368-397) *)

\* get_alerts_by_priority
GetAlertsByPriority(l, p) == LET Has(a) == a.priority = p IN SelectSeq(l, Has)

\* a count that takes every alert for unread
GetUnreadAlertsCountAll(l) == Len(l)

\* get_unread_alerts_count
GetUnreadAlertsCount(l) == LET Unread(a) == ~a.is_read IN Len(SelectSeq(l, Unread))

\* a method without the test "0 <=": Python's alerts[-1] is the last alert
MarkAlertAsReadFromTheEnd(l, i) ==
    IF i < Len(l) /\ 0 <= i + Len(l)
    THEN [l EXCEPT ![IF i < 0 THEN i + Len(l) + 1 ELSE i + 1].is_read = TRUE]
    ELSE l

\* mark_alert_as_read; Python's index i is position i + 1 of the sequence
MarkAlertAsRead(l, i) ==
    IF 0 <= i /\ i < Len(l) THEN [l EXCEPT ![i + 1].is_read = TRUE] ELSE l

\* a summary whose 'alerts' are cut to the first three, total untouched
GetAlertsSummaryCapped(l) ==
    [total |-> Len(l),
     unread |-> GetUnreadAlertsCount(l),
     by_priority |-> [critical |-> Len(GetAlertsByPriority(l, "CRITICAL")),
                      high |-> Len(GetAlertsByPriority(l, "HIGH")),
                      medium |-> Len(GetAlertsByPriority(l, "MEDIUM")),
                      low |-> Len(GetAlertsByPriority(l, "LOW"))],
     alerts |-> ToDicts(SubSeq(l, 1, Min(3, Len(l))))]

\* get_alerts_summary
GetAlertsSummary(l) ==
    [total |-> Len(l),
     unread |-> GetUnreadAlertsCount(l),
     by_priority |-> [critical |-> Len(GetAlertsByPriority(l, "CRITICAL")),
                      high |-> Len(GetAlertsByPriority(l, "HIGH")),
                      medium |-> Len(GetAlertsByPriority(l, "MEDIUM")),
                      low |-> Len(GetAlertsByPriority(l, "LOW"))],
     alerts |-> ToDicts(l)]

-----------------------------------------------------------------------------
(* AlertSystem.generate_all_alerts (alert_system.py:58-80) *)

\* the number of rules a pass runs, in this order
Rules == 1..6

\* a pass that checks the goals before the spending limits
RuleGoalsFirst(k, s, d, t) ==
    CASE k = 1 -> CheckGoalsProgress(s, d)
      [] k = 2 -> CheckSpendingLimits(s, d)
      [] k = 3 -> CheckBalanceProjections(s, t)
      [] k = 4 -> CheckUnusualSpending(s, d)
      [] k = 5 -> CheckBillReminders(s, d)
      [] k = 6 -> CheckPositiveTrends(s, d)

\* the k-th rule of a pass; d is the AlertSystem's current_date, t the
\* host's date when the pass runs.  Only the balance projection, which
\* builds its own FinancialAnalyzer, reads t.
Rule(k, s, d, t) ==
    CASE k = 1 -> CheckSpendingLimits(s, d)
      [] k = 2 -> CheckGoalsProgress(s, d)
      [] k = 3 -> CheckBalanceProjections(s, t)
      [] k = 4 -> CheckUnusualSpending(s, d)
      [] k = 5 -> CheckBillReminders(s, d)
      [] k = 6 -> CheckPositiveTrends(s, d)

\* the current date a rule computes with
RuleDate(k, d, t) == IF k = 3 THEN t ELSE d

\* the effect of every rule on the store s, by rule number
RunRules(s, d, t) == [k \in Rules |-> Rule(k, s, d, t)]

\* a pass that appends to the list of the pass before
KeepAlerts(old) == old

\* "self.alerts = []" (line 60): the list the rules append to is a new one
ResetAlerts(old) == <<>>

\* what the first n rules append, in order
Produced(n, steps) == Flatten([k \in 1..n |-> steps[k].alerts])

\* self.alerts after "self.alerts = []" and the first n rules
AlertsAfter(n, old, steps) == ResetAlerts(old) \o Produced(n, steps)

\* One call of generate_all_alerts, steps being RunRules on the store.
\* fail = 0: every store read succeeds.  fail = k: the first store read of
\* rule k raises; nothing in generate_all_alerts or in the rules catches it,
\* so the call ends there with what the rules before k appended still in
\* self.alerts.
\*   ran      : how many rules ran to their end
\*   before   : the list self.alerts named before the call
\*   list     : self.alerts when the call ends
\*   produced : what the rules of this call appended
\*   dates    : the current date each executed rule computed with
\*   divs     : the divisors of the divisions the call executed
\*   at       : the host's date during the call
Pass(fail, old, steps, d, t) ==
    LET n == IF fail = 0 THEN 6 ELSE fail - 1
    IN [raised |-> fail # 0,
        ran |-> n,
        before |-> old,
        list |-> AlertsAfter(n, old, steps),
        produced |-> Produced(n, steps),
        dates |-> {RuleDate(k, d, t) : k \in 1..n},
        divs |-> UNION {steps[k].divs : k \in 1..n},
        at |-> t]

-----------------------------------------------------------------------------
(* FinancialAnalyzer of financial_analysis.py: the dashboard analyses.     *)
(* Each result carries divs, the divisors of the divisions by a computed   *)
(* value that the call executed.                                           *)

\* round(x, 1): to one decimal, a tie going to the even digit
Round1(x) ==
    LET n == x.num * 10
        q == n \div x.den
        r == n % x.den
        up == 2 * r > x.den \/ (2 * r = x.den /\ q % 2 = 1)
    IN Frac(IF up THEN q + 1 ELSE q, 10)

\* get_current_month_summary (lines 19-62): the totals it returns
GetCurrentMonthSummary(s, cd) ==
    LET start_of_month == Date(cd.year, cd.month, 1)
        total_expenses == SumAmounts(InPeriod(s, "EXPENSE", start_of_month, cd))
        total_income == SumAmounts(InPeriod(s, "INCOME", start_of_month, cd))
    IN [total_income |-> total_income,
        total_expenses |-> total_expenses,
        partial_balance |-> total_income - total_expenses,
        days_in_month |-> cd.day,
        total_days_in_month |-> DaysInMonth(cd.year, cd.month)]

\* get_spending_limits_status (lines 64-99)
GetSpendingLimitsStatus(s, cd) ==
    The({[i \in 1..Len(limits) |->
            The({[category_id |-> limits[i].category_id,
                  monthly_limit |-> limits[i].monthly_limit,
                  current_spent |-> current_spent,
                  remaining |-> limits[i].monthly_limit - current_spent,
                  percentage_used |-> PercentageUsed(current_spent, limits[i]).val,
                  is_over_limit |-> current_spent > limits[i].monthly_limit,
                  divs |-> PercentageUsed(current_spent, limits[i]).div] :
                    current_spent \in {CurrentSpent(s, limits[i], cd)}})] :
            limits \in {LimitsOfMonth(s, cd)}})

\* _count_income_sources (lines 406-418): the categories with an income in
\* the last three months
CountIncomeSources(s, cd) ==
    The({Cardinality({t.category_id : t \in
                        {x \in s.transactions :
                            /\ DateLeq(three_months_ago, x.transaction_date)
                            /\ x.transaction_type = "INCOME"}}) :
            three_months_ago \in {AddMonths(cd, -3)}})

\* the points each factor of get_financial_health_score may award (lines 229-250)
HealthWeights ==
    [positive_balance |-> 25, spending_discipline |-> 25,
     savings_capacity |-> 25, income_diversification |-> 25]

\* factor 1 without its max(0, ...)
PositiveBalanceFactorUnclamped(partial_balance) ==
    IF partial_balance > 0 THEN Num(25)
    ELSE FAdd(Num(25), FMul(Frac(partial_balance, 1000), Num(5)))

\* factor 1 (lines 229-232), for the partial balance of the month
PositiveBalanceFactor(partial_balance) ==
    IF partial_balance > 0 THEN Num(25)
    ELSE FMax(Num(0), FAdd(Num(25), FMul(Frac(partial_balance, 1000), Num(5))))

\* factor 2 (lines 235-239), for the list of the limits' status
SpendingDisciplineFactor(spending_limits) ==
    LET IsOver(l) == l.is_over_limit
    IN IF spending_limits # <<>>
       THEN Num(Max(0, 25 - Len(SelectSeq(spending_limits, IsOver)) * 10))
       ELSE Num(15)

\* factor 3 (lines 242-249), for the savings capacity of the next month
SavingsCapacityFactor(savings_capacity) ==
    IF savings_capacity # <<>>
    THEN The({IF FPos(next_month_savings)
              THEN FMin(Num(25), FMul(FDiv(next_month_savings, Num(1000)), Num(5)))
              ELSE Num(0) :
                 next_month_savings \in {savings_capacity[1].value.projected_savings}})
    ELSE Num(0)

\* factor 4 (lines 252-253), for the number of income sources
IncomeDiversificationFactor(income_sources) == Num(Min(25, income_sources * 8))

\* get_financial_health_score (lines 219-262)
GetFinancialHealthScore(s, cd) ==
    The({The({[total_score |->
                   Round1(FAdd(FAdd(score_factors.positive_balance,
                                    score_factors.spending_discipline),
                               FAdd(score_factors.savings_capacity,
                                    score_factors.income_diversification))),
               score_factors |-> score_factors,
               weights |-> HealthWeights,
               divs |-> UNION {spending_limits[i].divs : i \in 1..Len(spending_limits)}
                        \cup UNION {savings_capacity[i].value.divs :
                                       i \in 1..Len(savings_capacity)}] :
                score_factors \in
                    {[positive_balance |->
                          PositiveBalanceFactor(current_summary.partial_balance),
                      spending_discipline |-> SpendingDisciplineFactor(spending_limits),
                      savings_capacity |-> SavingsCapacityFactor(savings_capacity),
                      income_diversification |->
                          IncomeDiversificationFactor(CountIncomeSources(s, cd))]}}) :
            current_summary \in {GetCurrentMonthSummary(s, cd)},
            spending_limits \in {<<>> \o GetSpendingLimitsStatus(s, cd)},
            savings_capacity \in {<<>> \o CalculateSavingsCapacity(s, cd, 1)}})

\* an entry that calls a goal achievable only below the mean
GoalAnalysisStrictlyBelow(goal, cd, savings_capacity, count, avg_monthly_savings) ==
    The({The({[id |-> goal.id,
               amount_needed |-> goal.target_amount - goal.current_amount,
               days_remaining |-> days_remaining,
               months_remaining |-> Round1(months_remaining),
               monthly_savings_needed |-> m.val,
               progress_percentage |-> FMul(q.val, Num(100)),
               is_achievable |-> FLess(m.val, avg_monthly_savings),
               avg_monthly_savings_capacity |-> avg_monthly_savings,
               divs |-> m.div \cup q.div \cup {count}
                        \cup UNION {savings_capacity[k].value.divs :
                                       k \in 1..Len(savings_capacity)}] :
                m \in {Guarded(FPos(months_remaining),
                               Num(goal.target_amount - goal.current_amount),
                               months_remaining,
                               Num(goal.target_amount - goal.current_amount))},
                q \in {ActualProgress(goal)}}) :
            days_remaining \in {DaysBetween(goal.target_date, cd)},
            months_remaining \in
                {FMax(Num(1), DaysToMonths(DaysBetween(goal.target_date, cd)))}})

\* one entry of analyze_goals_progress (lines 188-214), for the savings
\* capacity and its mean
GoalAnalysis(goal, cd, savings_capacity, count, avg_monthly_savings) ==
    The({The({[id |-> goal.id,
               amount_needed |-> goal.target_amount - goal.current_amount,
               days_remaining |-> days_remaining,
               months_remaining |-> Round1(months_remaining),
               monthly_savings_needed |-> m.val,
               progress_percentage |-> FMul(q.val, Num(100)),
               is_achievable |-> FLeq(m.val, avg_monthly_savings),
               avg_monthly_savings_capacity |-> avg_monthly_savings,
               divs |-> m.div \cup q.div \cup {count}
                        \cup UNION {savings_capacity[k].value.divs :
                                       k \in 1..Len(savings_capacity)}] :
                m \in {Guarded(FPos(months_remaining),
                               Num(goal.target_amount - goal.current_amount),
                               months_remaining,
                               Num(goal.target_amount - goal.current_amount))},
                q \in {ActualProgress(goal)}}) :
            days_remaining \in {DaysBetween(goal.target_date, cd)},
            months_remaining \in
                {FMax(Num(1), DaysToMonths(DaysBetween(goal.target_date, cd)))}})

\* analyze_goals_progress (lines 183-217).  The mean of the projected
\* savings, sum(...) / len(savings_capacity), is a division the code does
\* not guard.
AnalyzeGoalsProgress(s, cd) ==
    The({The({[i \in 1..Len(goals) |->
                 GoalAnalysis(goals[i], cd, savings_capacity,
                              Num(Len(savings_capacity)), avg_monthly_savings)] :
                avg_monthly_savings \in
                    {FDiv(FSum([i \in 1..Len(savings_capacity) |->
                                  savings_capacity[i].value.projected_savings]),
                          Num(Len(savings_capacity)))}}) :
            goals \in {ActiveGoals(s)},
            savings_capacity \in {<<>> \o CalculateSavingsCapacity(s, cd, 3)}})

-----------------------------------------------------------------------------
(* FinancialAnalyzer of financial_analysis_simple.py, the analyzer behind  *)
(* the dashboard.  Its methods have the names of the other analyzer's;     *)
(* here they carry the prefix Simple.                                      *)

\* get_current_month_summary (lines 37-98)
SimpleGetCurrentMonthSummary(s, cd) ==
    LET start_of_month == Date(cd.year, cd.month, 1)
        total_income == SumAmounts(InPeriod(s, "INCOME", start_of_month, cd))
        total_expenses == SumAmounts(InPeriod(s, "EXPENSE", start_of_month, cd))
    IN [total_income |-> total_income,
        total_expenses |-> total_expenses,
        partial_balance |-> total_income - total_expenses,
        days_in_month |-> cd.day,
        total_days_in_month |-> DaysInMonth(cd.year, cd.month)]

\* get_spending_limits_status (lines 285-323)
SimpleGetSpendingLimitsStatus(s, cd) ==
    The({[i \in 1..Len(limits) |->
            The({[category_id |-> limits[i].category_id,
                  monthly_limit |-> limits[i].monthly_limit,
                  current_spent |-> current_spent,
                  remaining |-> limits[i].monthly_limit - current_spent,
                  percentage_used |-> PercentageUsed(current_spent, limits[i]).val,
                  divs |-> PercentageUsed(current_spent, limits[i]).div] :
                    current_spent \in {CurrentSpent(s, limits[i], cd)}})] :
            limits \in {LimitsOfMonth(s, cd)}})

\* the points each factor of calculate_health_score may award (lines 112-147)
SimpleHealthWeights ==
    [positive_balance |-> 25, savings_capacity |-> 30,
     spending_discipline |-> 30, income_diversification |-> 15]

\* "Saldo positivo" (lines 112-114)
SimplePositiveBalanceFactor(partial_balance) ==
    IF partial_balance > 0 THEN Num(25) ELSE Num(0)

\* "Capacidade de poupanca" (lines 117-124): the factor and the division
SimpleSavingsFactor(partial_balance, total_income) ==
    The({[val |-> IF total_income > 0
                  THEN IF FLeq(Frac(2, 10), rate.val) THEN Num(30)
                       ELSE IF FLeq(Frac(1, 10), rate.val) THEN Num(20)
                       ELSE IF FPos(rate.val) THEN Num(10)
                       ELSE Num(0)
                  ELSE Num(0),
          div |-> rate.div] :
            rate \in {Guarded(total_income > 0, Num(partial_balance),
                              Num(total_income), Num(0))}})

\* "Disciplina nos gastos" (lines 127-133): the factor and the division
SimpleDisciplineFactor(limits_status) ==
    LET Within(l) == l.current_spent <= l.monthly_limit
    IN IF limits_status # <<>>
       THEN The({[val |-> FMul(q.val, Num(30)), div |-> q.div] :
                    q \in {Guarded(TRUE, Num(Len(SelectSeq(limits_status, Within))),
                                   Num(Len(limits_status)), Num(0))}})
       ELSE [val |-> Num(15), div |-> {}]

\* "Diversificacao de renda" (lines 136-145): the categories with an income
SimpleDiversificationFactor(s) ==
    The({IF income_sources >= 3 THEN Num(15)
         ELSE IF income_sources = 2 THEN Num(10)
         ELSE IF income_sources = 1 THEN Num(5)
         ELSE Num(0) :
            income_sources \in
                {Cardinality({t.category_id : t \in
                                {x \in s.transactions :
                                    x.transaction_type = "INCOME"}})}})

\* calculate_health_score (lines 100-178)
SimpleCalculateHealthScore(s, cd) ==
    The({The({[total_score |->
                   FAdd(FAdd(score_factors.positive_balance,
                             score_factors.savings_capacity),
                        FAdd(score_factors.spending_discipline,
                             score_factors.income_diversification)),
               score_factors |-> score_factors,
               weights |-> SimpleHealthWeights,
               divs |-> savings.div \cup discipline.div
                        \cup UNION {limits_status[i].divs :
                                       i \in 1..Len(limits_status)}] :
                score_factors \in
                    {[positive_balance |->
                          SimplePositiveBalanceFactor(
                              current_month_data.partial_balance),
                      savings_capacity |-> savings.val,
                      spending_discipline |-> discipline.val,
                      income_diversification |-> SimpleDiversificationFactor(s)]}}) :
            current_month_data \in {SimpleGetCurrentMonthSummary(s, cd)},
            savings \in
                {SimpleSavingsFactor(SimpleGetCurrentMonthSummary(s, cd).partial_balance,
                                     SimpleGetCurrentMonthSummary(s, cd).total_income)},
            limits_status \in {<<>> \o SimpleGetSpendingLimitsStatus(s, cd)},
            discipline \in
                {SimpleDisciplineFactor(<<>> \o SimpleGetSpendingLimitsStatus(s, cd))}})

\* _calculate_historical_income_average, _calculate_historical_expense_average
\* (lines 343-373): the mean amount of the rows of the last three months
SimpleHistoricalAverage(s, cd, ty) ==
    The({AvgAmounts(InPeriod(s, ty, three_months_ago, cd)) :
            three_months_ago \in {AddMonths(cd, -3)}})

\* _calculate_recurring_income, _calculate_recurring_expenses (lines 375-405):
\* every active recurring row of the type, whatever its frequency and dates
SimpleRecurring(s, ty) ==
    LET Counts(r) == r.is_active /\ r.transaction_type = ty
    IN The({SumSeq([i \in 1..Len(rows) |-> rows[i].amount]) :
               rows \in {SelectSeq(s.recurring, Counts)}})

\* _calculate_projected_income, _calculate_projected_expenses (lines 327-341)
SimpleProjected(s, cd, ty) ==
    FMax(SimpleHistoricalAverage(s, cd, ty), Num(SimpleRecurring(s, ty)))

\* calculate_savings_capacity (lines 180-204): the entry of i = n - 1
SimpleSavingsOfMonth(s, cd, n) ==
    The({The({[key |-> MonthKey(future_date.year, future_date.month),
               value |-> [month |-> future_date.month,
                          year |-> future_date.year,
                          projected_income |-> projected_income,
                          projected_expenses |-> projected_expenses,
                          projected_savings |-> projected_savings,
                          savings_rate |-> FMul(rate.val, Num(100)),
                          divs |-> rate.div]] :
                projected_savings \in {FSub(projected_income, projected_expenses)},
                rate \in {Guarded(FPos(projected_income),
                                  FSub(projected_income, projected_expenses),
                                  projected_income, Num(0))}}) :
            future_date \in {AddMonths(cd, n)},
            projected_income \in {SimpleProjected(s, cd, "INCOME")},
            projected_expenses \in {SimpleProjected(s, cd, "EXPENSE")}})

SimpleCalculateSavingsCapacity(s, cd, months) ==
    [n \in 1..months |-> SimpleSavingsOfMonth(s, cd, n)]

\* get_goals_progress (lines 256-283)
SimpleGetGoalsProgress(s, cd) ==
    The({[i \in 1..Len(goals) |->
            The({[id |-> goals[i].id,
                  progress_percentage |-> FMul(q.val, Num(100)),
                  remaining_amount |->
                      goals[i].target_amount - goals[i].current_amount,
                  days_remaining |-> DaysBetween(goals[i].target_date, cd),
                  months_remaining |-> months_remaining,
                  monthly_needed |-> m.val,
                  divs |-> q.div \cup m.div] :
                    q \in {ActualProgress(goals[i])},
                    months_remaining \in
                        {FMax(Num(0),
                              DaysToMonths(DaysBetween(goals[i].target_date, cd)))},
                    m \in {Guarded(FPos(FMax(Num(0),
                                        DaysToMonths(DaysBetween(goals[i].target_date,
                                                                 cd)))),
                                   Num(goals[i].target_amount - goals[i].current_amount),
                                   FMax(Num(0),
                                        DaysToMonths(DaysBetween(goals[i].target_date,
                                                                 cd))),
                                   Num(goals[i].target_amount
                                           - goals[i].current_amount))}})] :
            goals \in {ActiveGoals(s)}})

\* the divisors kept in the entries of a list or of a dict
DivsOfList(l) == The({UNION {v[i].divs : i \in 1..Len(v)} : v \in {l}})
DivsOfDict(d) == The({UNION {v[i].value.divs : i \in 1..Len(v)} : v \in {d}})

\* get_dashboard_data (lines 17-36); the two projection tables repeat the
\* numbers of the savings capacity and are left out
GetDashboardData(s, cd) ==
    The({[current_month_summary |-> SimpleGetCurrentMonthSummary(s, cd),
          health_score |-> health_score,
          savings_capacity |-> savings_capacity,
          goals_progress |-> goals_progress,
          spending_limits_status |-> spending_limits_status,
          divs |-> health_score.divs \cup DivsOfDict(savings_capacity)
                   \cup DivsOfList(goals_progress)
                   \cup DivsOfList(spending_limits_status)] :
            health_score \in {SimpleCalculateHealthScore(s, cd)},
            savings_capacity \in {<<>> \o SimpleCalculateSavingsCapacity(s, cd, 3)},
            goals_progress \in {<<>> \o SimpleGetGoalsProgress(s, cd)},
            spending_limits_status \in {<<>> \o SimpleGetSpendingLimitsStatus(s, cd)}})

-----------------------------------------------------------------------------
(* The request handlers of alerts.py, each served alone.  The module-level *)
(* alert_system (alerts.py:7) is built once, when the module is imported:  *)
(* its current_date is the date of that day, its list is empty.            *)

\* the values a client sends for ?priority= and ?type= (None: not sent)
PriorityArgs == {None, "high", "urgent"}
TypeArgs == {None, "bill_reminder", "reminder"}

\* the query strings a client sends to GET /alerts: no filter, each filter
\* alone with a valid and with an unknown value, and unread_only
FilterArgs ==
    {[priority |-> pf, type |-> None, unread_only |-> FALSE] : pf \in PriorityArgs}
    \cup {[priority |-> None, type |-> tf, unread_only |-> FALSE] : tf \in TypeArgs}
    \cup {[priority |-> None, type |-> None, unread_only |-> TRUE]}

\* AlertPriority(value), AlertType(value): the member, or a ValueError
PriorityOfValue(v) ==
    IF \E p \in AlertPriority : AlertPriorityValue(p) = v
    THEN CHOOSE p \in AlertPriority : AlertPriorityValue(p) = v
    ELSE "ValueError"

TypeOfValue(v) ==
    IF \E t \in AlertType : AlertTypeValue(t) = v
    THEN CHOOSE t \in AlertType : AlertTypeValue(t) = v
    ELSE "ValueError"

\* the response of get_alerts (alerts.py:9-52) to a pass and the filters
GetAlertsResponse(pass, pf, tf, unread_only) ==
    LET ByPriority(a) == pf = None \/ a.priority = PriorityOfValue(pf)
        ByType(a) == tf = None \/ a.alert_type = TypeOfValue(tf)
        Unread(a) == ~unread_only \/ ~a.is_read
        filtered == SelectSeq(SelectSeq(SelectSeq(pass.list, ByPriority), ByType), Unread)
    IN IF pass.raised THEN [code |-> 500, success |-> FALSE]
       ELSE IF pf # None /\ PriorityOfValue(pf) = "ValueError"
       THEN [code |-> 400, success |-> FALSE]
       ELSE IF tf # None /\ TypeOfValue(tf) = "ValueError"
       THEN [code |-> 400, success |-> FALSE]
       ELSE [code |-> 200, success |-> TRUE,
             alerts |-> ToDicts(filtered),
             total |-> Len(filtered),
             summary |-> GetAlertsSummary(pass.list)]

\* GET /alerts.  The filters shape the response of a pass that returns only:
\* when the pass raises, the handler answers 500 whatever they are.
GetAlerts ==
    \E steps \in {RunRules(store, sys_date, today)} :
    \E fail \in {0} \cup Rules :
    \E pass \in {Pass(fail, alerts, steps, sys_date, today)} :
    \E f \in IF pass.raised
             THEN {[priority |-> None, type |-> None, unread_only |-> FALSE]}
             ELSE FilterArgs :
        /\ alerts' = pass.list
        /\ last' = [op |-> "get_alerts", pass |-> pass,
                    response |-> GetAlertsResponse(pass, f.priority, f.type,
                                                   f.unread_only)]
        /\ UNCHANGED <<today, store, sys_date, req>>

\* GET /alerts/summary (alerts.py:54-68)
GetAlertsSummaryRoute ==
    \E steps \in {RunRules(store, sys_date, today)} :
    \E fail \in {0} \cup Rules :
    \E pass \in {Pass(fail, alerts, steps, sys_date, today)} :
        /\ alerts' = pass.list
        /\ last' = [op |-> "get_alerts_summary", pass |-> pass,
                    response |-> IF pass.raised
                                 THEN [code |-> 500, success |-> FALSE]
                                 ELSE [code |-> 200, success |-> TRUE,
                                       summary |-> GetAlertsSummary(pass.list)]]
        /\ UNCHANGED <<today, store, sys_date, req>>

\* GET /alerts/priority/<priority> (alerts.py:83-107): an unknown priority is
\* refused before the pass
GetAlertsByPriorityRoute ==
    \E pa \in PriorityArgs \ {None} :
        IF PriorityOfValue(pa) = "ValueError"
        THEN /\ last' = [op |-> "get_alerts_by_priority",
                         response |-> [code |-> 400, success |-> FALSE]]
             /\ UNCHANGED <<today, store, sys_date, alerts, req>>
        ELSE \E steps \in {RunRules(store, sys_date, today)} :
             \E fail \in {0} \cup Rules :
             \E pass \in {Pass(fail, alerts, steps, sys_date, today)} :
             \E found \in {GetAlertsByPriority(pass.list, PriorityOfValue(pa))} :
                /\ alerts' = pass.list
                /\ last' = [op |-> "get_alerts_by_priority", pass |-> pass,
                            response |-> IF pass.raised
                                         THEN [code |-> 500, success |-> FALSE]
                                         ELSE [code |-> 200, success |-> TRUE,
                                               alerts |-> ToDicts(found),
                                               total |-> Len(found)]]
                /\ UNCHANGED <<today, store, sys_date, req>>

\* AlertSystem.mark_alert_as_read(i), as POST /alerts/<int:alert_index>/mark-read
\* calls it (alerts.py:70-81).  The route itself passes no negative index
\* (the int converter accepts no sign); other callers of the method may.
\* The indexes sent are -1, 0..MaxIndex and the first index past the list.
MarkAlertRead ==
    \E i \in (-1..MaxIndex) \cup {Len(alerts)} :
        /\ alerts' = MarkAlertAsRead(alerts, i)
        /\ last' = [op |-> "mark_alert_read", index |-> i,
                    response |-> [code |-> 200, success |-> TRUE]]
        /\ UNCHANGED <<today, store, sys_date, req>>

\* the three alerts of generate_test_alerts (alerts.py:151-176)
TestAlerts ==
    <<Alert("SPENDING_LIMIT_EXCEEDED", "HIGH", "Teste: Limite excedido",
            [category |-> "Alimentacao", limit |-> 1000, spent |-> 1200],
            "/transactions"),
      Alert("GOAL_DEADLINE_APPROACHING", "MEDIUM", "Teste: Meta proxima do prazo",
            [goal |-> "Viagem", days_remaining |-> 15], "/goals"),
      Alert("POSITIVE_TREND", "LOW", "Teste: Tendencia positiva",
            [improvement |-> 500], "/dashboard")>>

\* POST /alerts/test (alerts.py:141-188)
GenerateTestAlerts ==
    /\ alerts' = <<>> \o TestAlerts
    /\ last' = [op |-> "generate_test_alerts",
                response |-> [code |-> 200, success |-> TRUE,
                              alerts |-> ToDicts(TestAlerts)]]
    /\ UNCHANGED <<today, store, sys_date, req>>

\* A call of AlertSystem.get_alerts_summary() on the list as it is, without a
\* pass before it (alert_system.py:381-397)
GetAlertsSummaryCall ==
    /\ last' = [op |-> "get_alerts_summary()", result |-> GetAlertsSummary(alerts)]
    /\ UNCHANGED <<today, store, sys_date, alerts, req>>

\* A call of get_financial_health_score, of analyze_goals_progress and of
\* get_dashboard_data, each on an analyzer built for the call: its
\* current_date is the host's date (financial_analysis.py:14-17,
\* financial_analysis_simple.py:14-15).  They read the store and write nothing.
HealthScoreRequest ==
    \E r \in {GetFinancialHealthScore(store, today)} :
        /\ last' = [op |-> "get_financial_health_score", at |-> today, result |-> r]
        /\ UNCHANGED <<today, store, sys_date, alerts, req>>

GoalsAnalysisRequest ==
    \E r \in {AnalyzeGoalsProgress(store, today)} :
        /\ last' = [op |-> "analyze_goals_progress", at |-> today, result |-> r]
        /\ UNCHANGED <<today, store, sys_date, alerts, req>>

DashboardRequest ==
    \E r \in {GetDashboardData(store, today)} :
        /\ last' = [op |-> "get_dashboard_data", at |-> today, result |-> r]
        /\ UNCHANGED <<today, store, sys_date, alerts, req>>

\* A call of _should_occur_in_month on a row of the store, for a month of
\* this year or of the next (financial_analysis.py:321-330)
ShouldOccurInMonthCall ==
    \E i \in 1..Len(store.recurring) :
    \E year \in {today.year, today.year + 1} :
    \E month \in 1..12 :
        /\ last' = [op |-> "_should_occur_in_month",
                    item |-> store.recurring[i], year |-> year, month |-> month,
                    result |-> ShouldOccurInMonth(store.recurring[i], year, month)]
        /\ UNCHANGED <<today, store, sys_date, alerts, req>>

\* A call of calculate_savings_capacity(months_ahead) on an analyzer of
\* financial_analysis.py built for the call (lines 159-181), with the two
\* projections it computes first
SavingsCapacityCall ==
    \E months_ahead \in 1..MaxMonths :
    \E expense_projections \in {<<>> \o ProjectFutureExpenses(store, today, months_ahead)} :
    \E income_projections \in {<<>> \o ProjectFutureIncome(store, today, months_ahead)} :
        /\ last' = [op |-> "calculate_savings_capacity",
                    months |-> months_ahead, at |-> today,
                    expense_projections |-> expense_projections,
                    income_projections |-> income_projections,
                    result |-> <<>> \o SavingsCapacityOf(expense_projections,
                                                         income_projections)]
        /\ UNCHANGED <<today, store, sys_date, alerts, req>>

\* A call of calculate_savings_capacity(months) on an analyzer of
\* financial_analysis_simple.py built for the call (lines 180-204)
SimpleSavingsCapacityCall ==
    \E months \in 1..MaxMonths :
        /\ last' = [op |-> "simple.calculate_savings_capacity",
                    months |-> months, at |-> today,
                    result |-> <<>> \o SimpleCalculateSavingsCapacity(store, today,
                                                                      months)]
        /\ UNCHANGED <<today, store, sys_date, alerts, req>>

\* midnight: the host's date moves on; the alert_system keeps the date it was
\* built with, nothing assigns current_date after __init__
DayPasses ==
    /\ DaysBetween(today, sys_date) < MaxDays
    /\ today' = NextDay(today)
    /\ UNCHANGED <<store, sys_date, alerts, req, last>>

-----------------------------------------------------------------------------
(* GET /alerts served by concurrent threads (alerts.py:9-52 on the         *)
(* module-level alert_system of alerts.py:7).  A request runs              *)
(* generate_all_alerts statement by statement; the statements of two       *)
(* requests interleave.  Every statement reads self.alerts when it runs:   *)
(* the list that attribute names at that moment.                           *)
(*   req[r].pc       : "idle", "rules", "return", "respond", "done"        *)
(*   req[r].rule     : the rule to run next while pc = "rules", else 0     *)
(*   req[r].own      : the alerts the rules of request r appended          *)
(*   req[r].holds    : the list the handler's local variable alerts names: *)
(*                     "none" before the return, "self" while it is the    *)
(*                     list self.alerts names, "old" once self.alerts      *)
(*                     names a newer list                                  *)
(*   req[r].held     : the contents of that list once it is "old"          *)
(*   req[r].response : the response of the request, once it is "done"      *)

Requests == 1..2

IdleRequest ==
    [pc |-> "idle", rule |-> 0, own |-> <<>>, holds |-> "none", held |-> <<>>,
     response |-> [code |-> 0]]

\* self.alerts = [] (alert_system.py:60): the attribute names a new list; the
\* list it named keeps its contents for the requests that hold it
Begin(r) ==
    /\ req[r].pc = "idle"
    /\ alerts' = ResetAlerts(alerts)
    /\ req' = [q \in Requests |->
                 IF q = r THEN [req[q] EXCEPT !.pc = "rules", !.rule = 1]
                 ELSE IF req[q].holds = "self"
                 THEN [req[q] EXCEPT !.holds = "old", !.held = alerts]
                 ELSE req[q]]
    /\ UNCHANGED <<today, store, sys_date, last>>

\* one of the six rule calls (alert_system.py:63-78): its alerts are appended
\* to the list self.alerts names now
RunRule(r) ==
    /\ req[r].pc = "rules"
    /\ \E step \in {Rule(req[r].rule, store, sys_date, today)} :
          /\ alerts' = alerts \o step.alerts
          /\ req' = [req EXCEPT ![r].own = @ \o step.alerts,
                                ![r].rule = IF @ = 6 THEN 0 ELSE @ + 1,
                                ![r].pc = IF req[r].rule = 6 THEN "return" ELSE @]
    /\ UNCHANGED <<today, store, sys_date, last>>

\* return self.alerts (alert_system.py:80): the handler's variable names the
\* list self.alerts names now
Return(r) ==
    /\ req[r].pc = "return"
    /\ req' = [req EXCEPT ![r].holds = "self", ![r].pc = "respond"]
    /\ UNCHANGED <<today, store, sys_date, alerts, last>>

\* the response without filters (alerts.py:40-46): the alerts of the list the
\* handler holds, the summary of the list self.alerts names now
Respond(r) ==
    /\ req[r].pc = "respond"
    /\ \E l \in {IF req[r].holds = "self" THEN alerts ELSE req[r].held} :
          req' = [req EXCEPT ![r].pc = "done",
                             ![r].response =
                                 [code |-> 200, success |-> TRUE,
                                  alerts |-> ToDicts(l),
                                  total |-> Len(l),
                                  summary |-> GetAlertsSummary(alerts)]]
    /\ UNCHANGED <<today, store, sys_date, alerts, last>>

\* POST /alerts/test while requests are being served (alerts.py:178):
\* alert_system.alerts names the list of the test alerts; the list it named
\* keeps its contents for the requests that hold it
InjectTestAlerts ==
    /\ alerts' = <<>> \o TestAlerts
    /\ req' = [q \in Requests |->
                 IF req[q].holds = "self"
                 THEN [req[q] EXCEPT !.holds = "old", !.held = alerts]
                 ELSE req[q]]
    /\ last' = [op |-> "generate_test_alerts",
                response |-> [code |-> 200, success |-> TRUE,
                              alerts |-> ToDicts(TestAlerts)]]
    /\ UNCHANGED <<today, store, sys_date>>

\* POST /alerts/<i>/mark-read sent by the client of request r, once it has
\* the response of its GET /alerts, for an index i of the alerts it lists
\* (alerts.py:70-81).  The call records the alert the client saw at i.
MarkSeen(r) ==
    /\ req[r].pc = "done"
    /\ \E i \in 0..MaxIndex :
          /\ i < req[r].response.total
          /\ alerts' = MarkAlertAsRead(alerts, i)
          /\ last' = [op |-> "mark_alert_read", index |-> i,
                      seen |-> req[r].response.alerts[i + 1],
                      before |-> alerts,
                      response |-> [code |-> 200, success |-> TRUE]]
    /\ UNCHANGED <<today, store, sys_date, req>>

-----------------------------------------------------------------------------
(* FileImportService of file_import.py.  A text is the sequence of its     *)
(* characters.  A row is one row of the CSV file as _process_csv_file      *)
(* hands it on (lines 100-132): the values stripped, '' for a missing one.  *)
(* The files have the four required columns only, so that every row gets   *)
(* the category 'Outros' and the account 'Conta Principal'.                *)

MaxRows == 2

Digits == {"0", "1", "2", "3", "4", "5", "6", "7", "8", "9"}

\* the number a text of digits writes
RECURSIVE NumberOf(_)
NumberOf(t) ==
    IF t = <<>> THEN 0
    ELSE NumberOf(SubSeq(t, 1, Len(t) - 1)) * 10
           + (CHOOSE n \in 0..9 : Digit(n) = t[Len(t)])

RECURSIVE Pow10(_)
Pow10(k) == IF k = 0 THEN 1 ELSE 10 * Pow10(k - 1)

\* str.lower(), for the letters of ASCII
UpperCase == <<"A", "B", "C", "D", "E", "F", "G", "H", "I", "J", "K", "L", "M", "N", "O", "P", "Q", "R", "S", "T", "U", "V", "W", "X", "Y", "Z">>
LowerCase == <<"a", "b", "c", "d", "e", "f", "g", "h", "i", "j", "k", "l", "m", "n", "o", "p", "q", "r", "s", "t", "u", "v", "w", "x", "y", "z">>
Lower(t) ==
    [i \in 1..Len(t) |->
        IF \E k \in 1..26 : UpperCase[k] = t[i]
        THEN LowerCase[CHOOSE k \in 1..26 : UpperCase[k] = t[i]]
        ELSE t[i]]

\* str.strip(), for blanks
RECURSIVE Strip(_)
Strip(t) ==
    IF t = <<>> THEN t
    ELSE IF t[1] = " " THEN Strip(Tail(t))
    ELSE IF t[Len(t)] = " " THEN Strip(SubSeq(t, 1, Len(t) - 1))
    ELSE t

\* keyword in text
Contains(t, keyword) ==
    \E i \in 0..(Len(t) - Len(keyword)) :
        SubSeq(t, i + 1, i + Len(keyword)) = keyword

\* str.replace(a, b) for one character a; b is a text
Replace(t, a, b) == Flatten([i \in 1..Len(t) |-> IF t[i] = a THEN b ELSE <<t[i]>>])

\* str.split(sep) for one character sep
RECURSIVE Split(_, _)
Split(t, sep) ==
    IF \E i \in 1..Len(t) : t[i] = sep
    THEN The({<<SubSeq(t, 1, i - 1)>> \o Split(SubSeq(t, i + 1, Len(t)), sep) :
                 i \in {CHOOSE i \in 1..Len(t) :
                           t[i] = sep /\ \A j \in 1..(i - 1) : t[j] # sep}})
    ELSE <<t>>

\* float(text) for a text of digits, '.', '+' and '-': an optional sign, then
\* digits with at most one '.' among them and at least one digit; any other
\* text raises ValueError (ok is FALSE)
ToFloat(t) ==
    LET signed == t # <<>> /\ t[1] \in {"+", "-"}
        body == IF signed THEN Tail(t) ELSE t
        parts == Split(body, ".")
        whole == parts[1]
        fraction == IF Len(parts) = 2 THEN parts[2] ELSE <<>>
        ok == /\ Len(parts) <= 2
              /\ \A i \in 1..Len(body) : body[i] \in Digits \cup {"."}
              /\ Len(whole) + Len(fraction) > 0
        magnitude == Frac(NumberOf(whole \o fraction), Pow10(Len(fraction)))
    IN  IF ok
        THEN [ok |-> TRUE,
              val |-> IF signed /\ t[1] = "-" THEN FSub(Num(0), magnitude)
                      ELSE magnitude]
        ELSE [ok |-> FALSE, val |-> Num(0)]

\* _parse_amount (lines 315-334): None is ok = FALSE
ParseAmount(amount_str) ==
    IF amount_str = <<>> THEN [ok |-> FALSE, val |-> Num(0)]
    ELSE LET Kept(c) == c \in Digits \cup {".", ",", "+", "-"}
             cleaned == SelectSeq(amount_str, Kept)
             HasComma == \E i \in 1..Len(cleaned) : cleaned[i] = ","
             HasPoint == \E i \in 1..Len(cleaned) : cleaned[i] = "."
         IN  ToFloat(IF HasComma /\ HasPoint
                     THEN Replace(Replace(cleaned, ".", <<>>), ",", <<".">>)
                     ELSE IF HasComma THEN Replace(cleaned, ",", <<".">>)
                     ELSE cleaned)

\* the formats of _parse_date, in the order it tries them (lines 298-305):
\* the separator, the positions of day, month and year, the digits of the year
DateFormats ==
    <<[sep |-> "/", day |-> 1, month |-> 2, year |-> 3, digits |-> 4],
      [sep |-> "-", day |-> 1, month |-> 2, year |-> 3, digits |-> 4],
      [sep |-> "-", day |-> 3, month |-> 2, year |-> 1, digits |-> 4],
      [sep |-> "/", day |-> 1, month |-> 2, year |-> 3, digits |-> 2],
      [sep |-> "-", day |-> 1, month |-> 2, year |-> 3, digits |-> 2],
      [sep |-> "/", day |-> 3, month |-> 2, year |-> 1, digits |-> 4]>>

\* datetime.strptime(date_str, fmt).date(): %d and %m take one or two
\* digits, %Y four, %y two (00-68 are 2000-2068); ValueError is ok = FALSE
Strptime(date_str, fmt) ==
    LET parts == Split(date_str, fmt.sep)
        AllDigits(t) == t # <<>> /\ \A i \in 1..Len(t) : t[i] \in Digits
        shaped == /\ Len(parts) = 3
                  /\ \A k \in 1..3 : AllDigits(parts[k])
                  /\ Len(parts[fmt.day]) <= 2
                  /\ Len(parts[fmt.month]) <= 2
                  /\ Len(parts[fmt.year]) = fmt.digits
        day == NumberOf(parts[fmt.day])
        month == NumberOf(parts[fmt.month])
        written == NumberOf(parts[fmt.year])
        year == IF fmt.digits = 4 THEN written
                ELSE IF written < 69 THEN 2000 + written ELSE 1900 + written
    IN  IF shaped
        THEN IF /\ year >= 1
                /\ month \in 1..12
                /\ day >= 1
                /\ day <= DaysInMonth(year, month)
             THEN [ok |-> TRUE, val |-> Date(year, month, day)]
             ELSE [ok |-> FALSE, val |-> NullDate]
        ELSE [ok |-> FALSE, val |-> NullDate]

\* _parse_date (lines 292-313): the first format that parses; None is ok = FALSE
ParseDate(date_str) ==
    IF date_str = <<>> THEN [ok |-> FALSE, val |-> NullDate]
    ELSE IF \E k \in 1..Len(DateFormats) : Strptime(date_str, DateFormats[k]).ok
    THEN Strptime(date_str,
                  DateFormats[CHOOSE k \in 1..Len(DateFormats) :
                                 /\ Strptime(date_str, DateFormats[k]).ok
                                 /\ \A j \in 1..(k - 1) :
                                       ~Strptime(date_str, DateFormats[j]).ok])
    ELSE [ok |-> FALSE, val |-> NullDate]

income_keywords ==
    <<<<"r", "e", "c", "e", "i", "t", "a">>,
      <<"e", "n", "t", "r", "a", "d", "a">>,
      <<"c", "r", "e", "d", "i", "t", "o">>,
      <<"c", "r", "é", "d", "i", "t", "o">>,
      <<"i", "n", "c", "o", "m", "e">>,
      <<"c", "r", "e", "d", "i", "t">>,
      <<"+">>>>
expense_keywords ==
    <<<<"d", "e", "s", "p", "e", "s", "a">>,
      <<"s", "a", "i", "d", "a">>,
      <<"s", "a", "í", "d", "a">>,
      <<"d", "e", "b", "i", "t", "o">>,
      <<"d", "é", "b", "i", "t", "o">>,
      <<"e", "x", "p", "e", "n", "s", "e">>,
      <<"d", "e", "b", "i", "t">>,
      <<"-">>>>

\* _parse_transaction_type (lines 336-354)
ParseTransactionType(type_str, amount) ==
    LET BySign == IF FLeq(Num(0), amount) THEN "INCOME" ELSE "EXPENSE"
        lowered == Strip(Lower(type_str))
    IN  IF type_str = <<>> THEN BySign
        ELSE IF \E k \in 1..Len(income_keywords) : Contains(lowered, income_keywords[k])
        THEN "INCOME"
        ELSE IF \E k \in 1..Len(expense_keywords) : Contains(lowered, expense_keywords[k])
        THEN "EXPENSE"
        ELSE BySign

\* abs(amount)
FAbs(x) == IF FLess(x, Num(0)) THEN FSub(Num(0), x) ELSE x

\* the categories table when the import starts, as the cache built of it
\* (lines 356-359): names in lower case, the id of a name its position
categories_cache == <<<<"o", "u", "t", "r", "o", "s">>>>

\* _get_or_create_category (lines 366-388) for a name in the cache
GetCategory(category_name, cache) ==
    CHOOSE id \in 1..Len(cache) :
        cache[id] = Lower(IF category_name = <<>> THEN <<"O", "u", "t", "r", "o", "s">> ELSE category_name)

\* a row parser that keeps the sign of the amount
ParseTransactionRowSigned(row) ==
    LET transaction_date == ParseDate(row.data)
        amount == ParseAmount(row.valor)
    IN  IF ~transaction_date.ok
        THEN [ok |-> FALSE, error |-> "Data invalida", date |-> NullDate,
              amount |-> Num(0), type |-> "INCOME", category_id |-> 0]
        ELSE IF ~amount.ok
        THEN [ok |-> FALSE, error |-> "Valor invalido", date |-> NullDate,
              amount |-> Num(0), type |-> "INCOME", category_id |-> 0]
        ELSE [ok |-> TRUE, error |-> "",
              date |-> transaction_date.val,
              amount |-> amount.val,
              type |-> ParseTransactionType(row.tipo, amount.val),
              category_id |-> GetCategory(<<"O", "u", "t", "r", "o", "s">>, categories_cache)]

\* _parse_transaction_row (lines 257-290): the transaction data of a row, or
\* the ValueError it raises (ok = FALSE, with its message).  Description,
\* account and notes are left out: no modelled code reads them.
ParseTransactionRow(row) ==
    LET transaction_date == ParseDate(row.data)
        amount == ParseAmount(row.valor)
    IN  IF ~transaction_date.ok
        THEN [ok |-> FALSE, error |-> "Data invalida", date |-> NullDate,
              amount |-> Num(0), type |-> "INCOME", category_id |-> 0]
        ELSE IF ~amount.ok
        THEN [ok |-> FALSE, error |-> "Valor invalido", date |-> NullDate,
              amount |-> Num(0), type |-> "INCOME", category_id |-> 0]
        ELSE [ok |-> TRUE, error |-> "",
              date |-> transaction_date.val,
              amount |-> FAbs(amount.val),
              type |-> ParseTransactionType(row.tipo, amount.val),
              category_id |-> GetCategory(<<"O", "u", "t", "r", "o", "s">>, categories_cache)]

\* _process_transactions before its commit (lines 217-246): the results
\* after the first n rows of data, and the transactions added to the
\* session, each with the number of its row; first_id is the id the first
\* of them gets.  Row k of the file has _row_number k + 1 (line 123).
RECURSIVE ProcessRows(_, _, _)
ProcessRows(data, n, first_id) ==
    IF n = 0
    THEN [total_rows |-> Len(data), successful_imports |-> 0,
          failed_imports |-> 0, errors |-> <<>>, added |-> <<>>]
    ELSE The({The({IF parsed.ok
                   THEN [results EXCEPT
                            !.successful_imports = @ + 1,
                            !.added = Append(@,
                                [row |-> n + 1,
                                 transaction |->
                                     Transaction(first_id + Len(results.added),
                                                 parsed.amount, parsed.type,
                                                 parsed.date, parsed.category_id)])]
                   ELSE [results EXCEPT
                            !.failed_imports = @ + 1,
                            !.errors = Append(@, [row |-> n + 1,
                                                  error |-> parsed.error])] :
                      parsed \in {ParseTransactionRow(data[n])}}) :
                results \in {ProcessRows(data, n - 1, first_id)}})

\* one row of a file
ImportRow(data, descricao, valor, tipo) ==
    [data |-> data, descricao |-> descricao, valor |-> valor, tipo |-> tipo]

\* The rows a file is made of: an income and an expense of the template
\* (lines 421-438); an amount in the Brazilian format with its currency and
\* no type; a negative amount without type; a negative amount typed as a
\* credit; the 31st of February; an amount that is no number; no date; an
\* amount of two numbers.
RowPool ==
    {ImportRow(<<"1", "5", "/", "0", "1", "/", "2", "0", "2", "5">>,
               <<"S", "a", "l", "a", "r", "i", "o">>,
               <<"5", "0", "0", "0", ".", "0", "0">>,
               <<"r", "e", "c", "e", "i", "t", "a">>),
     ImportRow(<<"2", "0", "2", "5", "-", "0", "1", "-", "1", "6">>,
               <<"S", "u", "p", "e", "r", "m", "e", "r", "c", "a", "d", "o">>,
               <<"-", "2", "5", "0", ",", "5", "0">>,
               <<"d", "e", "s", "p", "e", "s", "a">>),
     ImportRow(<<"1", "7", "/", "0", "1", "/", "2", "5">>,
               <<"B", "o", "n", "u", "s">>,
               <<"R", "$", " ", "1", ".", "2", "3", "4", ",", "5", "6">>,
               <<>>),
     ImportRow(<<"1", "8", "/", "1", "/", "2", "0", "2", "5">>,
               <<>>,
               <<"-", "8", "0">>,
               <<>>),
     ImportRow(<<"2", "0", "2", "5", "/", "0", "1", "/", "1", "9">>,
               <<"E", "s", "t", "o", "r", "n", "o">>,
               <<"-", "3", "0">>,
               <<"C", "r", "e", "d", "i", "t", "o">>),
     ImportRow(<<"3", "1", "/", "0", "2", "/", "2", "0", "2", "5">>,
               <<"D", "i", "a", " ", "q", "u", "e", " ", "n", "a", "o", " ", "e", "x", "i", "s", "t", "e">>,
               <<"1", "0">>,
               <<"r", "e", "c", "e", "i", "t", "a">>),
     ImportRow(<<"2", "0", "/", "0", "1", "/", "2", "0", "2", "5">>,
               <<"S", "e", "m", " ", "v", "a", "l", "o", "r">>,
               <<"a", "b", "c">>,
               <<"d", "e", "s", "p", "e", "s", "a">>),
     ImportRow(<<>>,
               <<"S", "e", "m", " ", "d", "a", "t", "a">>,
               <<"1", "0">>,
               <<"d", "e", "s", "p", "e", "s", "a">>),
     ImportRow(<<"2", "1", "/", "0", "1", "/", "2", "0", "2", "5">>,
               <<"D", "o", "i", "s", " ", "s", "i", "n", "a", "i", "s">>,
               <<"1", "-", "2">>,
               <<"s", "a", "i", "d", "a">>)}

\* the data of a file: 1 to MaxRows rows of the pool
ImportFiles == UNION {[1..n -> RowPool] : n \in 1..MaxRows}

\* import_transactions_from_file (lines 19-66), from the data of a valid
\* file on: _process_transactions (lines 217-255) adds the transactions of
\* the rows that parse and commits; when the commit raises, it rolls the
\* session back and raises, and the import answers success = False.  The
\* amounts of imported transactions are floats, kept as fractions.  A file
\* is imported while the table has room for its rows (at most MaxRows).
ImportTransactions ==
    \E data \in ImportFiles :
    \E commits \in BOOLEAN :
    \E results \in {ProcessRows(<<>> \o data, Len(data),
                                 1 + Cardinality(store.transactions))} :
        /\ Cardinality(store.transactions) + Len(data) <= MaxRows
        /\ store' = IF commits
                    THEN [store EXCEPT !.transactions =
                             @ \cup {results.added[k].transaction :
                                        k \in 1..Len(results.added)}]
                    ELSE store
        /\ last' = [op |-> "import_transactions_from_file",
                    data |-> <<>> \o data,
                    before |-> store.transactions,
                    results |-> results,
                    committed |-> commits,
                    rolled_back |-> ~commits,
                    response |-> IF commits
                                 THEN [success |-> TRUE,
                                       total_rows |-> results.total_rows,
                                       successful_imports |-> results.successful_imports,
                                       failed_imports |-> results.failed_imports,
                                       errors |-> results.errors]
                                 ELSE [success |-> FALSE,
                                       total_rows |-> 0,
                                       successful_imports |-> 0,
                                       failed_imports |-> 0,
                                       errors |-> <<>>]]
        /\ UNCHANGED <<today, sys_date, alerts, req>>

-----------------------------------------------------------------------------
(* The stores the model starts from *)

\* the day the process starts: alerts.py is imported, alert_system is built
StartDate == Date(2025, 1, 31)

\* the ways a query may return rows among those of q: some of the rows, each
\* once (a row has one primary key), in any order
Arrangements(q) ==
    {r \in UNION {[1..k -> {q[i] : i \in 1..Len(q)}] : k \in 0..Len(q)} :
        \A i, j \in 1..Len(r) : r[i] = r[j] => i = j}

Store(txs, limits, goals, recurring) ==
    [transactions |-> txs, limits |-> limits, goals |-> goals,
     recurring |-> recurring]

\* A ledger that makes every rule fire on StartDate:
\*   1, 2  January expenses: 520 in category 1, 80 in category 2
\*   3     January income
\*   4, 5  December income and expense (previous month, recent history)
\*   6, 7  expenses of February and March of the year before
BusyLedger ==
    {Transaction(1, 520, "EXPENSE", Date(2025, 1, 28), 1),
     Transaction(2, 80, "EXPENSE", Date(2025, 1, 10), 2),
     Transaction(3, 1000, "INCOME", Date(2025, 1, 5), 3),
     Transaction(4, 200, "INCOME", Date(2024, 12, 5), 3),
     Transaction(5, 10, "EXPENSE", Date(2024, 12, 10), 1),
     Transaction(6, 900, "EXPENSE", Date(2024, 2, 10), 1),
     Transaction(7, 900, "EXPENSE", Date(2024, 3, 10), 1)}

\* a limit that BusyLedger exceeds and one it uses to 80%
CoreLimits ==
    <<SpendingLimit(1, 100, MonthKey(2025, 1)),
      SpendingLimit(2, 100, MonthKey(2025, 1))>>

\* due in 20 days and created 300 days before the deadline, at 20%; due at the
\* end of the year and not started
CoreGoals ==
    <<Goal(1, 1000, 200, Date(2025, 2, 20), Date(2024, 4, 26), TRUE),
      Goal(2, 500, 0, Date(2025, 12, 31), Date(2024, 1, 1), TRUE)>>

CoreRecurring ==
    <<RecurringTransaction(1, 100, "EXPENSE", "monthly", Date(2024, 1, 5), NullDate,
                           Date(2025, 2, 5), TRUE, 1),
      RecurringTransaction(2, 50, "EXPENSE", "yearly", Date(2024, 2, 1), NullDate,
                           Date(2025, 2, 1), TRUE, 2)>>

\* The core stores: the busy ledger with every arrangement of the limits and
\* of the goals, one table varying at a time, and the empty store.
CoreStores ==
    {Store(BusyLedger, l, CoreGoals, CoreRecurring) : l \in Arrangements(CoreLimits)}
    \cup {Store(BusyLedger, CoreLimits, g, CoreRecurring) :
             g \in Arrangements(CoreGoals)}
    \cup {Store({}, <<>>, <<>>, <<>>)}

\* the rows of q at the positions of I, in the order of q
Pick(q, I) ==
    LET F[k \in 0..Len(q)] ==
            IF k = 0 THEN <<>>
            ELSE IF k \in I THEN Append(F[k - 1], q[k]) ELSE F[k - 1]
    IN F[Len(q)]

\* the tables that hold some of the rows of q
Selections(q) == {Pick(q, I) : I \in SUBSET (1..Len(q))}

\* The limit stores.  January expenses of category 1: any of them together
\* spend 0, 20, 40, 80, 100 or 120 of a limit.
LimitPool ==
    {Transaction(1, 80, "EXPENSE", Date(2025, 1, 10), 1),
     Transaction(2, 20, "EXPENSE", Date(2025, 1, 20), 1),
     Transaction(3, 20, "EXPENSE", Date(2025, 1, 31), 1)}

\* rows that are no January expense of category 1: another category, another
\* month, an income, a date after the current date
LimitDecoys ==
    {Transaction(4, 500, "EXPENSE", Date(2025, 1, 15), 2),
     Transaction(5, 500, "EXPENSE", Date(2024, 12, 31), 1),
     Transaction(6, 500, "INCOME", Date(2025, 1, 15), 1),
     Transaction(7, 500, "EXPENSE", Date(2025, 2, 1), 1)}

\* the monthly_limit of the limit of category 1
LimitAmounts == {-100, 0, 100}

\* the limit of category 1, a limit of category 2 used to 50%, and a limit of
\* December
LimitStores ==
    {Store(LimitDecoys \cup x,
           <<SpendingLimit(1, m, MonthKey(2025, 1)),
             SpendingLimit(2, 1000, MonthKey(2025, 1)),
             SpendingLimit(1, 10, MonthKey(2024, 12))>>,
           <<>>, <<>>) :
        x \in SUBSET LimitPool, m \in LimitAmounts}

\* The projection stores.  A monthly income of 200 and yearly expenses of 300
\* in March and in April: a deficit in none, one or two of the months ahead;
\* without the income, an expense of a past February makes February one.
ProjectionRecurring ==
    <<RecurringTransaction(1, 200, "INCOME", "monthly", Date(2024, 1, 1), NullDate,
                           Date(2025, 2, 1), TRUE, 3),
      RecurringTransaction(2, 300, "EXPENSE", "yearly", Date(2024, 3, 1), NullDate,
                           Date(2025, 3, 1), TRUE, 1),
      RecurringTransaction(3, 300, "EXPENSE", "yearly", Date(2024, 4, 1), NullDate,
                           Date(2025, 4, 1), TRUE, 1)>>

ProjectionLedgers ==
    {{}, {Transaction(1, 50, "EXPENSE", Date(2024, 2, 10), 1)}}

ProjectionStores ==
    {Store(txs, <<>>, <<>>, r) :
        txs \in ProjectionLedgers, r \in Selections(ProjectionRecurring)}

\* The health stores: no expense, a small one, one that brings the balance
\* under -5000; no income, one source, four sources; no limit, three limits
\* the expenses exceed.
HealthExpenses ==
    {{}, {Transaction(1, 300, "EXPENSE", Date(2025, 1, 10), 1)},
     {Transaction(2, 6000, "EXPENSE", Date(2025, 1, 12), 1)}}

HealthIncomes ==
    {{}, {Transaction(3, 1000, "INCOME", Date(2025, 1, 5), 3)},
     {Transaction(3, 1000, "INCOME", Date(2025, 1, 5), 3),
      Transaction(4, 100, "INCOME", Date(2025, 1, 6), 4),
      Transaction(5, 100, "INCOME", Date(2025, 1, 7), 5),
      Transaction(6, 100, "INCOME", Date(2025, 1, 8), 6)}}

HealthLimits ==
    {<<>>,
     <<SpendingLimit(1, 100, MonthKey(2025, 1)),
       SpendingLimit(1, 200, MonthKey(2025, 1)),
       SpendingLimit(1, 50, MonthKey(2025, 1))>>}

HealthStores ==
    {Store(e \cup i, l, <<>>, <<>>) :
        e \in HealthExpenses, i \in HealthIncomes, l \in HealthLimits}

\* The edge stores: limits of 0 and of -100; goals with a target of 0 and of
\* -100, a goal whose target date is its creation date and one whose target
\* date precedes it; no transaction, one recent expense, the busy ledger.
EdgeLimits ==
    <<SpendingLimit(1, 0, MonthKey(2025, 1)),
      SpendingLimit(2, -100, MonthKey(2025, 1))>>

EdgeTargets ==
    <<Goal(1, 0, 0, Date(2025, 6, 30), Date(2024, 6, 30), TRUE),
      Goal(2, -100, 50, Date(2025, 6, 30), Date(2024, 6, 30), TRUE)>>

EdgeDates ==
    <<Goal(3, 500, 100, Date(2025, 2, 1), Date(2025, 2, 1), TRUE),
      Goal(4, 500, 100, Date(2024, 6, 30), Date(2024, 12, 31), TRUE)>>

EdgeLedgers ==
    {{}, {Transaction(1, 50, "EXPENSE", Date(2025, 1, 28), 1)}}

EdgeStores ==
    {Store(txs, l, g, <<>>) :
        txs \in EdgeLedgers, l \in {EdgeLimits, CoreLimits},
        g \in {EdgeTargets, EdgeDates, CoreGoals}}
    \cup {Store(BusyLedger, EdgeLimits, g, CoreRecurring) :
             g \in {EdgeTargets, EdgeDates}}

\* The analyzer stores.  Recurring rows of every frequency: a monthly income;
\* a yearly expense that started in a March; a weekly expense that starts next
\* March; an expense of a frequency the evaluator does not know; a monthly
\* expense that ends in March; a yearly expense that is not active.
AnalyzerRecurring ==
    <<RecurringTransaction(1, 200, "INCOME", "monthly", Date(2024, 1, 1), NullDate,
                           Date(2025, 2, 1), TRUE, 3),
      RecurringTransaction(2, 300, "EXPENSE", "yearly", Date(2024, 3, 15), NullDate,
                           Date(2025, 3, 15), TRUE, 1),
      RecurringTransaction(3, 40, "EXPENSE", "weekly", Date(2025, 3, 1), NullDate,
                           Date(2025, 3, 1), TRUE, 1),
      RecurringTransaction(4, 10, "EXPENSE", "daily", Date(2024, 1, 1), NullDate,
                           Date(2025, 2, 1), TRUE, 2),
      RecurringTransaction(5, 100, "EXPENSE", "monthly", Date(2024, 1, 1),
                           Date(2025, 3, 31), Date(2025, 2, 1), TRUE, 2),
      RecurringTransaction(6, 70, "EXPENSE", "yearly", Date(2024, 2, 1), NullDate,
                           Date(2025, 2, 1), FALSE, 2)>>

\* no history, and the history of a February and of two Marches; the recent
\* rows are what the simple analyzer averages
AnalyzerLedgers ==
    {{},
     {Transaction(1, 500, "INCOME", Date(2024, 2, 5), 3),
      Transaction(2, 50, "EXPENSE", Date(2024, 2, 10), 1),
      Transaction(3, 900, "EXPENSE", Date(2024, 3, 10), 1),
      Transaction(4, 700, "EXPENSE", Date(2023, 3, 10), 1),
      Transaction(5, 400, "INCOME", Date(2025, 1, 5), 3),
      Transaction(6, 90, "EXPENSE", Date(2025, 1, 20), 1)}}

\* the recurring table holds no row, one of the rows, or all of them
AnalyzerTables ==
    {<<>>, AnalyzerRecurring}
    \cup {<<AnalyzerRecurring[i]>> : i \in 1..Len(AnalyzerRecurring)}

AnalyzerStores ==
    {Store(txs, <<>>, <<>>, r) : txs \in AnalyzerLedgers, r \in AnalyzerTables}

\* The goal stores.  A goal is due GoalDue days after StartDate and was
\* created GoalAge days before it is due; GoalAmounts are its target and its
\* current amount.
GoalDue == {-10, 0, 1, 20, 30, 31, 100}
GoalAge == {300, 200, 10, -5}
GoalAmounts == {<<10000, 2000>>, <<1000, 400>>, <<1000, 890>>, <<1000, 900>>, <<0, 50>>}

\* date.fromordinal(n): the date whose ordinal is n, a date within a year
\* of StartDate
FromOrdinal(n) ==
    LET y == CHOOSE y \in (StartDate.year - 1)..(StartDate.year + 1) :
                 /\ ToOrdinal(Date(y, 1, 1)) <= n
                 /\ n < ToOrdinal(Date(y + 1, 1, 1))
        m == CHOOSE m \in 1..12 :
                 /\ ToOrdinal(Date(y, m, 1)) <= n
                 /\ n <= ToOrdinal(Date(y, m, DaysInMonth(y, m)))
    IN Date(y, m, n - ToOrdinal(Date(y, m, 1)) + 1)

GoalRow(i, due, age, amounts, active) ==
    Goal(i, amounts[1], amounts[2], FromOrdinal(ToOrdinal(StartDate) + due),
         FromOrdinal(ToOrdinal(StartDate) + due - age), active)

\* the goal of the scenario of spec section 8: target 10000, current 2000,
\* due in 20 days, created 300 days before
ScenarioGoal == GoalRow(1, 20, 300, <<10000, 2000>>, TRUE)

\* one goal; the scenario goal before and after a second goal, active or
\* not; the scenario goal and a second one with the busy ledger and its limits
GoalStores ==
    {Store({}, <<>>, <<GoalRow(1, due, age, amounts, TRUE)>>, <<>>) :
        due \in GoalDue, age \in GoalAge, amounts \in GoalAmounts}
    \cup {Store({}, <<>>, g, <<>>) :
             g \in UNION {{<<ScenarioGoal, other>>, <<other, ScenarioGoal>>} :
                             other \in {GoalRow(2, due, 200, <<1000, 400>>, active) :
                                           due \in GoalDue, active \in BOOLEAN}}}
    \cup {Store(BusyLedger, CoreLimits,
                <<GoalRow(2, 100, 300, <<1000, 400>>, TRUE), ScenarioGoal>>,
                CoreRecurring)}

\* The spending stores.  The rule reads the expenses from 2025-01-24 to
\* 2025-01-31 and those from 2024-10-31 to 2025-01-23.
\* Recent expenses: 1500 on the first day of the window, 100 and 1 later.
RecentPool ==
    {Transaction(1, 1500, "EXPENSE", Date(2025, 1, 24), 1),
     Transaction(2, 100, "EXPENSE", Date(2025, 1, 31), 1),
     Transaction(3, 1, "EXPENSE", Date(2025, 1, 30), 2)}

\* rows neither query counts: an expense of tomorrow, one of the day before
\* the three months, an income of this week and one of the months before
SpendingDecoys ==
    {Transaction(4, 5000, "EXPENSE", Date(2025, 2, 1), 1),
     Transaction(5, 9000, "EXPENSE", Date(2024, 10, 30), 1),
     Transaction(6, 7000, "INCOME", Date(2025, 1, 28), 3),
     Transaction(7, 3000, "INCOME", Date(2024, 12, 15), 3)}

\* no history; seven expenses of 1000 together, the last on the eve of the
\* recent window: their mean times 7 is 1000; one expense of 10
SpendingHistories ==
    {{},
     {Transaction(11, 100, "EXPENSE", Date(2024, 10, 31), 1),
      Transaction(12, 200, "EXPENSE", Date(2024, 11, 10), 1),
      Transaction(13, 100, "EXPENSE", Date(2024, 11, 20), 2),
      Transaction(14, 200, "EXPENSE", Date(2024, 12, 1), 1),
      Transaction(15, 100, "EXPENSE", Date(2024, 12, 20), 2),
      Transaction(16, 200, "EXPENSE", Date(2025, 1, 10), 1),
      Transaction(17, 100, "EXPENSE", Date(2025, 1, 23), 1)},
     {Transaction(18, 10, "EXPENSE", Date(2024, 12, 24), 1)}}

SpendingStores ==
    {Store(recent \cup history \cup decoys, <<>>, <<>>, <<>>) :
        recent \in SUBSET RecentPool, history \in SpendingHistories,
        decoys \in {{}, SpendingDecoys}}

\* The bill stores.  Recurring expenses due yesterday, today, in 3, 7 and 8
\* days; one due in 2 days that is not active; an income due in 2 days.
BillPool ==
    <<RecurringTransaction(1, 10, "EXPENSE", "monthly", Date(2024, 1, 30), NullDate,
                           Date(2025, 1, 30), TRUE, 1),
      RecurringTransaction(2, 20, "EXPENSE", "monthly", Date(2024, 1, 31), NullDate,
                           Date(2025, 1, 31), TRUE, 1),
      RecurringTransaction(3, 30, "EXPENSE", "weekly", Date(2024, 1, 3), NullDate,
                           Date(2025, 2, 3), TRUE, 2),
      RecurringTransaction(4, 40, "EXPENSE", "yearly", Date(2024, 2, 7), NullDate,
                           Date(2025, 2, 7), TRUE, 2),
      RecurringTransaction(5, 50, "EXPENSE", "monthly", Date(2024, 1, 8), NullDate,
                           Date(2025, 2, 8), TRUE, 1),
      RecurringTransaction(6, 60, "EXPENSE", "monthly", Date(2024, 1, 2), NullDate,
                           Date(2025, 2, 2), FALSE, 1),
      RecurringTransaction(7, 70, "INCOME", "monthly", Date(2024, 1, 2), NullDate,
                           Date(2025, 2, 2), TRUE, 3)>>

BillStores == {Store({}, <<>>, <<>>, r) : r \in Selections(BillPool)}

\* The trend stores.  Rows of December and of January: any of them.
TrendPool ==
    {Transaction(1, 200, "INCOME", Date(2024, 12, 5), 3),
     Transaction(2, 1000, "INCOME", Date(2024, 12, 30), 3),
     Transaction(3, 50, "EXPENSE", Date(2024, 12, 29), 1),
     Transaction(4, 30, "EXPENSE", Date(2024, 12, 28), 1),
     Transaction(5, 500, "INCOME", Date(2025, 1, 10), 3),
     Transaction(6, 100, "EXPENSE", Date(2025, 1, 20), 1)}

TrendStores == {Store(txs, <<>>, <<>>, <<>>) : txs \in SUBSET TrendPool}

\* The report stores: one goal, due from 10 days ago to 100 days ahead, short
\* of its target, at it, past it, or with no target; and a recurring table
\* whose projected savings are 0, 200 or -100 every month, 100 every month,
\* or 200, -100 and 200 (a yearly expense of March).
ReportDue == {-10, 0, 1, 20, 30, 31, 100}
ReportAmounts == {<<1000, 400>>, <<1000, 1000>>, <<1000, 1200>>, <<0, 50>>}

ReportTables ==
    {<<>>,
     <<AnalyzerRecurring[1]>>,
     <<AnalyzerRecurring[5]>>,
     <<AnalyzerRecurring[1], AnalyzerRecurring[5]>>,
     <<AnalyzerRecurring[1], AnalyzerRecurring[2]>>}

ReportStores ==
    {Store({}, <<>>, <<GoalRow(1, due, 300, amounts, TRUE)>>, r) :
        due \in ReportDue, amounts \in ReportAmounts, r \in ReportTables}
    \cup {Store({}, <<>>,
                <<GoalRow(1, 20, 300, <<1000, 400>>, FALSE),
                  GoalRow(2, 100, 300, <<1000, 400>>, TRUE)>>, r) :
             r \in ReportTables}

\* The history stores: expenses and incomes of the Januaries of 2022 to 2025,
\* of the Februaries of 2023 and 2024 and of December 2024; any of the rows.
\* The service starts on StartDate, and projects February to April 2025, or
\* on YearEnd, and projects December 2025 to February 2026.
YearEnd == Date(2025, 11, 30)

HistoryPool ==
    {Transaction(1, 100, "EXPENSE", Date(2025, 1, 12), 1),
     Transaction(2, 300, "EXPENSE", Date(2024, 1, 20), 1),
     Transaction(3, 500, "EXPENSE", Date(2022, 1, 5), 2),
     Transaction(4, 60, "EXPENSE", Date(2024, 2, 7), 1),
     Transaction(5, 20, "EXPENSE", Date(2023, 2, 9), 1),
     Transaction(6, 50, "EXPENSE", Date(2024, 12, 24), 2),
     Transaction(7, 800, "INCOME", Date(2025, 1, 5), 3),
     Transaction(8, 400, "INCOME", Date(2022, 1, 5), 3)}

HistoryStores == {Store(txs, <<>>, <<>>, <<>>) : txs \in SUBSET HistoryPool}

\* The discipline stores: no limit, or limits of 100 for January 2025 in one,
\* two or three categories; expenses of January that exceed the limit of
\* category 1, meet that of category 2 exactly, or exceed it, and exceed that
\* of category 3 by 1; any of the rows.
DisciplineLimits ==
    {SubSeq(<<SpendingLimit(1, 100, MonthKey(2025, 1)),
              SpendingLimit(2, 100, MonthKey(2025, 1)),
              SpendingLimit(3, 100, MonthKey(2025, 1))>>, 1, n) : n \in 0..3}

DisciplinePool ==
    {Transaction(1, 150, "EXPENSE", Date(2025, 1, 10), 1),
     Transaction(2, 100, "EXPENSE", Date(2025, 1, 11), 2),
     Transaction(3, 50, "EXPENSE", Date(2025, 1, 13), 2),
     Transaction(4, 101, "EXPENSE", Date(2025, 1, 12), 3),
     Transaction(5, 1000, "INCOME", Date(2025, 1, 5), 4)}

DisciplineStores ==
    {Store(txs, l, <<>>, <<>>) : txs \in SUBSET DisciplinePool, l \in DisciplineLimits}

\* The stores of the read marks: the busy ledger with its limits, goals and
\* recurring rows (every rule fires); the scenario goal alone (the first
\* alert is about a goal); the empty store (no alert)
MarkStores ==
    {Store(BusyLedger, CoreLimits, CoreGoals, CoreRecurring),
     Store({}, <<>>, <<ScenarioGoal>>, <<>>),
     Store({}, <<>>, <<>>, <<>>)}

-----------------------------------------------------------------------------
(* Specification: the handlers served one at a time *)

InitFrom(stores) ==
    /\ today = StartDate
    /\ store \in stores
    /\ sys_date = today
    /\ alerts = <<>>
    /\ req = [r \in Requests |-> IdleRequest]
    /\ last = [op |-> "init"]

\* the same, for a service started on one of several dates
InitAt(stores, dates) ==
    /\ today \in dates
    /\ store \in stores
    /\ sys_date = today
    /\ alerts = <<>>
    /\ req = [r \in Requests |-> IdleRequest]
    /\ last = [op |-> "init"]

Init == InitFrom(CoreStores)

Next ==
    \/ GetAlerts
    \/ GetAlertsSummaryRoute
    \/ GetAlertsByPriorityRoute
    \/ MarkAlertRead
    \/ GenerateTestAlerts
    \/ HealthScoreRequest
    \/ GoalsAnalysisRequest
    \/ DashboardRequest
    \/ DayPasses

Spec == Init /\ [][Next]_vars

\* the same handlers on the limit, projection, health and edge stores
SpecLimits == InitFrom(LimitStores) /\ [][Next]_vars
SpecProjection == InitFrom(ProjectionStores) /\ [][Next]_vars
SpecHealth == InitFrom(HealthStores) /\ [][Next]_vars
SpecEdge == InitFrom(EdgeStores) /\ [][Next]_vars

\* GET /alerts and GET /alerts/summary served again and again, on the core,
\* goal, spending, bill and trend stores
NextPasses == GetAlerts \/ GetAlertsSummaryRoute \/ DayPasses

SpecPasses == InitFrom(CoreStores) /\ [][NextPasses]_vars
SpecGoals == InitFrom(GoalStores) /\ [][NextPasses]_vars
SpecSpending == InitFrom(SpendingStores) /\ [][NextPasses]_vars
SpecBills == InitFrom(BillStores) /\ [][NextPasses]_vars
SpecTrend == InitFrom(TrendStores) /\ [][NextPasses]_vars

-----------------------------------------------------------------------------
(* Specification: calls of the analyzers' projection methods *)

NextAnalyzer ==
    \/ ShouldOccurInMonthCall
    \/ SavingsCapacityCall
    \/ SimpleSavingsCapacityCall
    \/ DayPasses

SpecAnalyzer == InitFrom(AnalyzerStores) /\ [][NextAnalyzer]_vars

\* the goal reports of the two analyzers, asked for again and again
NextReports == GoalsAnalysisRequest \/ DashboardRequest \/ DayPasses

SpecReports == InitFrom(ReportStores) /\ [][NextReports]_vars

\* the analyzer's methods on the history stores, early and late in the year
NextProjections == SavingsCapacityCall \/ SimpleSavingsCapacityCall \/ DayPasses

SpecHistory == InitAt(HistoryStores, {StartDate, YearEnd}) /\ [][NextProjections]_vars

\* the health scores of the two analyzers, asked for again and again
NextScores == HealthScoreRequest \/ DashboardRequest \/ DayPasses

SpecDiscipline == InitFrom(DisciplineStores) /\ [][NextScores]_vars

\* passes, test alerts, read marks and summaries of the list, in any order
NextMarks ==
    \/ GetAlerts
    \/ GenerateTestAlerts
    \/ MarkAlertRead
    \/ GetAlertsSummaryCall
    \/ DayPasses

SpecMarks == InitFrom(MarkStores) /\ [][NextMarks]_vars

-----------------------------------------------------------------------------
(* Specification: two concurrent requests GET /alerts *)

\* the stores of the concurrent requests: the busy ledger with its limits,
\* goals and recurring rows, and without its limits
ConcStores ==
    {Store(BusyLedger, l, CoreGoals, CoreRecurring) : l \in {CoreLimits, <<>>}}

NextConc == \E r \in Requests : Begin(r) \/ RunRule(r) \/ Return(r) \/ Respond(r)

SpecConc == InitFrom(ConcStores) /\ [][NextConc]_vars

\* the requests GET /alerts of two clients, the test alerts injected and the
\* clients' read marks, interleaved
NextClients ==
    \/ \E r \in Requests : Begin(r) \/ RunRule(r) \/ Return(r) \/ Respond(r)
    \/ InjectTestAlerts
    \/ \E r \in Requests : MarkSeen(r)

\* the scenario goal alone (two alerts, both about the goal) or no row at all
ClientStores ==
    {Store({}, <<>>, <<ScenarioGoal>>, <<>>), Store({}, <<>>, <<>>, <<>>)}

SpecClients == InitFrom(ClientStores) /\ [][NextClients]_vars

\* files imported one after the other into an empty store
NextImport == ImportTransactions \/ DayPasses

SpecImport == InitFrom({Store({}, <<>>, <<>>, <<>>)}) /\ [][NextImport]_vars

-----------------------------------------------------------------------------
(* Properties of the handlers served one at a time *)

\* the last call ran generate_all_alerts
Generated == "pass" \in DOMAIN last

\* the last call ran generate_all_alerts and the pass returned
Returned == Generated /\ ~last.pass.raised

\* the last response carries a summary
Summarised ==
    /\ "response" \in DOMAIN last
    /\ "summary" \in DOMAIN last.response

\* the positions in the alerts a pass produced of the alerts of one type
\* about one limit
LimitAlertsOf(produced, type, l) ==
    {k \in 1..Len(produced) :
        /\ produced[k].alert_type = type
        /\ produced[k].data.category_id = l.category_id
        /\ produced[k].data.limit = l.monthly_limit}

\* percentageUsed >= 80, percentageUsed < 100: the percentage is
\* spent / limit * 100 for a positive limit and 0 otherwise
AtLeast80(spent, l) == l.monthly_limit > 0 /\ spent * 100 >= 80 * l.monthly_limit
Below100(spent, l) == l.monthly_limit <= 0 \/ spent * 100 < 100 * l.monthly_limit

\* the warning condition as the claim states it, and amended
WarnStated(spent, l) ==
    AtLeast80(spent, l) /\ Below100(spent, l) /\ ~(spent > l.monthly_limit)
WarnAmended(spent, l) == AtLeast80(spent, l) /\ ~(spent > l.monthly_limit)

\* after a pass whose limit check ran: each limit of the current month has
\* one exceeded alert iff spent > limit and none otherwise, one warning iff
\* the warning condition (as stated, or amended) holds and none otherwise
LimitOutcome(stated) ==
    (Generated /\ last.pass.ran >= 1) =>
        \E limits \in {LimitsOfMonth(store, sys_date)} :
        \E produced \in {last.pass.produced} :
            \A i \in 1..Len(limits) :
                \E l \in {limits[i]} :
                \E spent \in {CurrentSpent(store, limits[i], sys_date)} :
                    /\ Cardinality(LimitAlertsOf(produced, "SPENDING_LIMIT_EXCEEDED", l))
                           = IF spent > l.monthly_limit THEN 1 ELSE 0
                    /\ Cardinality(LimitAlertsOf(produced, "SPENDING_LIMIT_WARNING", l))
                           = IF (IF stated THEN WarnStated(spent, l)
                                           ELSE WarnAmended(spent, l))
                              THEN 1 ELSE 0

\* C1 as stated: for every limit of the current month the pass emits an
\* exceeded alert iff spent > limit, a warning iff 80 <= percentageUsed < 100
\* and the limit is not exceeded, nothing otherwise, never both.
LimitAlertsAsStated == LimitOutcome(TRUE)

\* C1, amended: for every limit of the current month the pass emits an
\* exceeded alert iff spent > limit, a warning iff percentageUsed >= 80 and
\* the limit is not exceeded, nothing otherwise, never both.
LimitAlertsDecided == LimitOutcome(FALSE)

\* a pass warned about a limit that is spent exactly
WarningAtTheLimit ==
    /\ Generated
    /\ \E produced \in {last.pass.produced} :
          \E k \in 1..Len(produced) :
              /\ produced[k].alert_type = "SPENDING_LIMIT_WARNING"
              /\ produced[k].data.spent = produced[k].data.limit

\* the months of a projection with projected_savings < 0, as <<year, month>>
DeficitsOf(sc) ==
    {<<sc[i].value.year, sc[i].value.month>> :
        i \in {j \in 1..Len(sc) : FLess(sc[j].value.projected_savings, Num(0))}}

\* C2: a pass emits at most one LOW_BALANCE_PROJECTION alert, and the month
\* of the one it emits is the earliest of the projected months with
\* projected_savings < 0.
EarliestDeficitOnly ==
    Generated =>
        \E sc \in {<<>> \o CalculateSavingsCapacity(store, last.pass.at, 3)} :
        \E low \in {SelectSeq(last.pass.produced,
                           LAMBDA a : a.alert_type = "LOW_BALANCE_PROJECTION")} :
        \E deficits \in {DeficitsOf(sc)} :
            /\ Len(low) <= 1
            /\ \A k \in 1..Len(low) :
                  /\ <<low[k].data.year, low[k].data.month>> \in deficits
                  /\ \A m \in deficits :
                        ~(\/ m[1] < low[k].data.year
                          \/ (m[1] = low[k].data.year /\ m[2] < low[k].data.month))

\* a pass emitted the alert of a projection with two deficit months, the
\* first month ahead not one of them
LaterDeficitSuppressed ==
    /\ Generated
    /\ \E a \in {last.pass.produced[k] : k \in 1..Len(last.pass.produced)} :
          a.alert_type = "LOW_BALANCE_PROJECTION"
    /\ \E sc \in {<<>> \o CalculateSavingsCapacity(store, last.pass.at, 3)} :
          /\ Cardinality(DeficitsOf(sc)) = 2
          /\ ~FLess(sc[1].value.projected_savings, Num(0))

\* a score and its factors are within their ranges
ScoreInRange(h, w) ==
    /\ FLeq(Num(0), h.total_score)
    /\ FLeq(h.total_score, Num(100))
    /\ \A f \in DOMAIN w :
          /\ FLeq(Num(0), h.score_factors[f])
          /\ FLeq(h.score_factors[f], Num(w[f]))

DivsOfLast ==
    IF Generated THEN last.pass.divs
    ELSE IF last.op \in {"get_financial_health_score", "get_dashboard_data"}
    THEN last.result.divs
    ELSE IF last.op = "analyze_goals_progress" THEN DivsOfList(last.result)
    ELSE {}

\* C10: no alert pass and no dashboard analysis divides by a denominator
\* that is not positive.
PositiveDivisors == \A d \in DivsOfLast : FPos(d)

\* a pass returned that divided, on a store with a limit and a goal target
\* that are not positive
PassOverEdgeRows ==
    /\ Returned
    /\ last.pass.divs # {}
    /\ \E i \in 1..Len(store.limits) : store.limits[i].monthly_limit <= 0
    /\ \E i \in 1..Len(store.goals) : store.goals[i].target_amount <= 0

\* C4: the summary a handler computes right after its generate_all_alerts
\* call has total = the length of the list that call returned, and its
\* 'alerts' are that list's alerts, as many and in the same order.
SummaryMatchesPass ==
    Summarised =>
        \E l \in {last.pass.list} : \E sm \in {last.response.summary} :
            /\ sm.total = Len(l)
            /\ Len(sm.alerts) = Len(l)
            /\ \A i \in 1..Len(l) : sm.alerts[i] = ToDict(l[i])

\* GET /alerts/summary answered with the summary of a pass of several alerts
SummaryOfBusyPass ==
    /\ Summarised
    /\ last.op = "get_alerts_summary"
    /\ last.response.summary.total > 3

\* C6: right after generate_all_alerts returns, self.alerts holds exactly
\* what that call's rules appended, and every alert in it is unread.
FreshList ==
    Returned =>
        /\ alerts = last.pass.produced
        /\ \A i \in 1..Len(alerts) : ~alerts[i].is_read

\* a pass returned alerts, and the list before it held a read alert and an
\* injected test alert
PassAfterReadTestAlerts ==
    /\ Returned
    /\ alerts # <<>>
    /\ \E old \in {last.pass.before} :
          /\ \E i \in 1..Len(old) : old[i].is_read
          /\ \E i \in 1..Len(old) : old[i].title = TestAlerts[3].title

\* the row of the rule table (spec 4.8) an alert type belongs to
TypeRank(type) ==
    CASE type = "SPENDING_LIMIT_EXCEEDED" -> 1
      [] type = "SPENDING_LIMIT_WARNING" -> 2
      [] type = "GOAL_DEADLINE_APPROACHING" -> 3
      [] type = "GOAL_BEHIND_SCHEDULE" -> 4
      [] type = "LOW_BALANCE_PROJECTION" -> 5
      [] type = "UNUSUAL_SPENDING" -> 6
      [] type = "BILL_REMINDER" -> 7
      [] type = "POSITIVE_TREND" -> 8

\* the check of generate_all_alerts that emits an alert type
CheckRank(type) ==
    CASE type \in {"SPENDING_LIMIT_EXCEEDED", "SPENDING_LIMIT_WARNING"} -> 1
      [] type \in {"GOAL_DEADLINE_APPROACHING", "GOAL_BEHIND_SCHEDULE"} -> 2
      [] type = "LOW_BALANCE_PROJECTION" -> 3
      [] type = "UNUSUAL_SPENDING" -> 4
      [] type = "BILL_REMINDER" -> 5
      [] type = "POSITIVE_TREND" -> 6

\* C7 as stated: in the list a pass returns, every alert of an earlier row
\* of the rule table precedes every alert of a later row.
RuleTableOrder ==
    Returned =>
        \E l \in {last.pass.list} :
            \A i, j \in 1..Len(l) :
                i < j => TypeRank(l[i].alert_type) <= TypeRank(l[j].alert_type)

\* C7, amended: in the list a pass returns, the alerts follow the order of
\* the six checks (spending limits, goals, balance projection, unusual
\* spending, bill reminders, positive trend); the alerts of the limits and
\* those of the goals follow the order of the limits and of the goals, and
\* only the alerts of one goal are in rule-table order (deadline approaching
\* before behind schedule).
CheckOrder ==
    Returned =>
        \E l \in {last.pass.list} :
            \A i, j \in 1..Len(l) :
                i < j =>
                    /\ CheckRank(l[i].alert_type) <= CheckRank(l[j].alert_type)
                    /\ (/\ CheckRank(l[i].alert_type) = 2
                        /\ CheckRank(l[j].alert_type) = 2
                        /\ l[i].data.goal_id = l[j].data.goal_id)
                       => TypeRank(l[i].alert_type) < TypeRank(l[j].alert_type)

\* a pass returned two alerts of one check against the order of the rule
\* table: a warning before an exceeded limit, or a goal behind schedule
\* before another goal's approaching deadline
InterleavedTypes ==
    /\ Returned
    /\ \E l \in {last.pass.list} :
          \E i, j \in 1..Len(l) :
              /\ i < j
              /\ CheckRank(l[i].alert_type) = CheckRank(l[j].alert_type)
              /\ TypeRank(l[i].alert_type) > TypeRank(l[j].alert_type)

\* C5: a request answered while another is served returns the alerts of its
\* own pass, in its alert list and in its summary: none missing, none twice,
\* none of the other request.
IsolatedRequests ==
    \A r \in Requests :
        req[r].pc = "done" =>
            /\ req[r].response.alerts = ToDicts(req[r].own)
            /\ req[r].response.summary.alerts = ToDicts(req[r].own)
            /\ req[r].response.summary.total = Len(req[r].own)

\* C8: when a store read fails during generate_all_alerts, the list that
\* get_alerts_summary, get_alerts_by_priority, get_unread_alerts_count and
\* mark_alert_as_read work on afterwards holds nothing the failed pass built:
\* it is empty, or the list of before the pass.
FailedPassLeavesNothing ==
    (Generated /\ last.pass.raised) =>
        \/ alerts = <<>>
        \/ alerts = last.pass.before

\* C9: every rule of a pass, the savings projection of the balance rule
\* included, computes with one and the same current date.
OneDatePerPass ==
    Generated => \A x, y \in last.pass.dates : x = y

\* the alerts of one type about one goal among the alerts a pass produced
GoalAlertsOf(produced, type, g) ==
    SelectSeq(produced, LAMBDA a : a.alert_type = type /\ a.data.goal_id = g.id)

\* the last call ran generate_all_alerts and its goal check ran to its end
GoalsChecked == Generated /\ last.pass.ran >= 2

\* monthsRemaining > 0 and actualProgress < idealProgress - 0.10, in whole
\* numbers: actualProgress + monthsRemaining / totalMonths < 9 / 10, where
\* monthsRemaining / totalMonths, days / 30.44 over max(1, total_days / 30.44),
\* is the fraction share[1] / share[2]
BehindSchedule(g, d) ==
    \E days \in {DaysBetween(g.target_date, d)} :
        /\ days > 0
        /\ \E total_days \in {DaysBetween(g.target_date, g.created_at)} :
           \E share \in {IF total_days * 25 >= 761 THEN <<days, total_days>>
                                                    ELSE <<days * 25, 761>>} :
              IF g.target_amount > 0
              THEN 10 * (g.current_amount * share[2] + share[1] * g.target_amount)
                       < 9 * g.target_amount * share[2]
              ELSE 10 * share[1] < 9 * share[2]

\* 0 < daysRemaining <= 30 and actualProgress * 100 < 90
DeadlineApproaching(g, d) ==
    \E days \in {DaysBetween(g.target_date, d)} :
        /\ 0 < days
        /\ days <= 30
        /\ g.target_amount > 0 => g.current_amount * 100 < 90 * g.target_amount

\* C13: a pass emits one GOAL_BEHIND_SCHEDULE alert for an active goal iff
\* monthsRemaining > 0 and actualProgress < idealProgress - 0.10, with
\* idealProgress = 1 - monthsRemaining / totalMonths and totalMonths =
\* max(1, (targetDate - createdDate) / 30.44), and none otherwise; none for
\* a goal that is due today or overdue.
BehindScheduleDecided ==
    GoalsChecked =>
        \E goals \in {ActiveGoals(store)} : \E produced \in {last.pass.produced} :
            \A i \in 1..Len(goals) :
                Len(GoalAlertsOf(produced, "GOAL_BEHIND_SCHEDULE", goals[i]))
                    = IF BehindSchedule(goals[i], sys_date) THEN 1 ELSE 0

\* a pass found behind schedule a goal that is due in more than 30 days
BehindFarFromTheDeadline ==
    /\ GoalsChecked
    /\ \E i \in 1..Len(store.goals) :
          /\ DaysBetween(store.goals[i].target_date, sys_date) > 30
          /\ GoalAlertsOf(last.pass.produced, "GOAL_BEHIND_SCHEDULE", store.goals[i])
                 # <<>>

\* C14: a pass emits one GOAL_DEADLINE_APPROACHING alert for an active goal
\* iff 0 < daysRemaining <= 30 and actualProgress * 100 < 90, and none
\* otherwise: none for a goal due today, overdue, due in more than 30 days or
\* at least 90% complete.
DeadlineApproachingDecided ==
    GoalsChecked =>
        \E goals \in {ActiveGoals(store)} : \E produced \in {last.pass.produced} :
            \A i \in 1..Len(goals) :
                Len(GoalAlertsOf(produced, "GOAL_DEADLINE_APPROACHING", goals[i]))
                    = IF DeadlineApproaching(goals[i], sys_date) THEN 1 ELSE 0

\* a pass warned of the deadline of a goal that is due in exactly 30 days
DeadlineInThirtyDays ==
    /\ GoalsChecked
    /\ \E i \in 1..Len(store.goals) :
          /\ DaysBetween(store.goals[i].target_date, sys_date) = 30
          /\ GoalAlertsOf(last.pass.produced, "GOAL_DEADLINE_APPROACHING",
                          store.goals[i]) # <<>>

\* the alerts about one goal, and about one limit, among those a pass produced
AboutGoal(produced, g) ==
    SelectSeq(produced, LAMBDA a : CheckRank(a.alert_type) = 2 /\ a.data.goal_id = g.id)
AboutLimit(produced, l) ==
    SelectSeq(produced, LAMBDA a : /\ CheckRank(a.alert_type) = 1
                                  /\ a.data.category_id = l.category_id)

\* C15: a goal that meets the deadline-approaching and the behind-schedule
\* condition gets both alerts in one pass; and the alerts a pass emits about
\* a goal, or about a limit, are those it emits when that goal, or that
\* limit, is the only one of the store.
GoalRulesIndependent ==
    GoalsChecked =>
        \E goals \in {ActiveGoals(store)} : \E limits \in {LimitsOfMonth(store, sys_date)} :
        \E produced \in {last.pass.produced} :
            /\ \A i \in 1..Len(goals) :
                  /\ (DeadlineApproaching(goals[i], sys_date)
                         /\ BehindSchedule(goals[i], sys_date))
                        => /\ GoalAlertsOf(produced, "GOAL_DEADLINE_APPROACHING",
                                           goals[i]) # <<>>
                           /\ GoalAlertsOf(produced, "GOAL_BEHIND_SCHEDULE",
                                           goals[i]) # <<>>
                  /\ AboutGoal(produced, goals[i])
                        = CheckGoalsProgress([store EXCEPT !.goals = <<goals[i]>>],
                                             sys_date).alerts
            /\ \A i \in 1..Len(limits) :
                  AboutLimit(produced, limits[i])
                      = CheckSpendingLimits([store EXCEPT !.limits = <<limits[i]>>],
                                            sys_date).alerts

\* a pass over the scenario goal and a second goal that is behind schedule:
\* the scenario goal got its two alerts, the second goal its own
BothAlertsForTheScenarioGoal ==
    /\ GoalsChecked
    /\ Len(store.goals) = 2
    /\ \E i \in 1..2 :
          /\ store.goals[i] = ScenarioGoal
          /\ Len(AboutGoal(last.pass.produced, store.goals[i])) = 2
          /\ AboutGoal(last.pass.produced, store.goals[3 - i]) # <<>>

\* the alerts of one type among those a pass produced
AlertsOfType(produced, type) == SelectSeq(produced, LAMBDA a : a.alert_type = type)

\* the expenses the unusual-spending rule compares, for the current date d:
\* recent is the total of the expenses dated from 7 days before d to d;
\* the historical weekly-equivalent average is 7 * sum / count for the
\* expenses dated from 3 months before d to 8 days before d, 0 when count = 0
SpendingOf(d) ==
    LET week_ago == AddDays(d, -7)
        three_months_ago == AddMonths(d, -3)
        rows == {t \in store.transactions :
                    /\ t.transaction_type = "EXPENSE"
                    /\ DateLeq(three_months_ago, t.transaction_date)
                    /\ DateLess(t.transaction_date, week_ago)}
    IN  [recent |-> SumAmounts({t \in store.transactions :
                                  /\ t.transaction_type = "EXPENSE"
                                  /\ DateLeq(week_ago, t.transaction_date)
                                  /\ DateLeq(t.transaction_date, d)}),
         sum |-> SumAmounts(rows),
         count |-> Cardinality(rows)]

StatedSpendingOf(d) ==
    LET first_recent == AddDays(d, -6)
        three_months_ago == AddMonths(d, -3)
        Expenses(from, to) ==
            {t \in store.transactions :
                /\ t.transaction_type = "EXPENSE"
                /\ ToOrdinal(from) <= ToOrdinal(t.transaction_date)
                /\ ToOrdinal(t.transaction_date) <= ToOrdinal(to)}
    IN  [recent |-> SumAmounts(Expenses(first_recent, d)),
         total |-> SumAmounts(Expenses(three_months_ago, AddDays(d, -7))),
         days |-> ToOrdinal(first_recent) - ToOrdinal(three_months_ago)]

\* C25: in the unusual-spending rule the historical weekly-equivalent
\* average is 7 times the mean expense per day of the prior 3 months (the
\* total of the historical window over its number of days), the recent
\* total covers exactly the trailing 7 days, and no expense is in both
\* windows: the alert is decided on these two amounts and carries them.
UnusualSpendingByDailyMean ==
    (Generated /\ last.pass.ran >= 4) =>
        \E x \in {StatedSpendingOf(sys_date)} :
        \E unusual \in {AlertsOfType(last.pass.produced, "UNUSUAL_SPENDING")} :
            /\ Len(unusual)
                  = IF /\ x.total > 0
                       /\ 2 * x.recent * x.days > 3 * 7 * x.total
                    THEN 1 ELSE 0
            /\ \A k \in 1..Len(unusual) :
                  /\ unusual[k].data.recent_expenses = x.recent
                  /\ unusual[k].data.historical_average = Frac(7 * x.total, x.days)

\* the bill reminders about one recurring row among those a pass produced
RemindersOf(produced, r) ==
    SelectSeq(produced, LAMBDA a : /\ a.alert_type = "BILL_REMINDER"
                                  /\ a.data.transaction_id = r.id)

\* C17: a pass emits one BILL_REMINDER alert for each recurring row that is
\* active, an expense, and due from the current date to 7 days later, both
\* included, with days_until the number of days until it is due, in 0..7;
\* and none for any other row.
BillRemindersDecided ==
    (Generated /\ last.pass.ran >= 5) =>
        \E produced \in {last.pass.produced} :
            \A i \in 1..Len(store.recurring) :
                \E r \in {store.recurring[i]} :
                \E days \in {ToOrdinal(store.recurring[i].next_occurrence)
                                 - ToOrdinal(sys_date)} :
                \E reminders \in {RemindersOf(produced, store.recurring[i])} :
                    /\ Len(reminders)
                          = IF /\ r.is_active
                               /\ r.transaction_type = "EXPENSE"
                               /\ 0 <= days
                               /\ days <= 7
                            THEN 1 ELSE 0
                    /\ \A k \in 1..Len(reminders) :
                          /\ reminders[k].data.days_until = days
                          /\ reminders[k].data.days_until \in 0..7

\* a pass reminded of a bill due today and of one due in 7 days, and the
\* store holds a bill due in 8 days
RemindersAtBothEnds ==
    /\ Returned
    /\ \E a, b \in {last.pass.produced[k] : k \in 1..Len(last.pass.produced)} :
          /\ a.alert_type = "BILL_REMINDER"
          /\ b.alert_type = "BILL_REMINDER"
          /\ a.data.days_until = 0
          /\ b.data.days_until = 7
    /\ \E i \in 1..Len(store.recurring) :
          /\ store.recurring[i].is_active
          /\ ToOrdinal(store.recurring[i].next_occurrence) - ToOrdinal(sys_date) = 8

\* income minus expenses over the days 1 to n of a month
SavingsOfDays(year, month, n) ==
    LET Total(ty) == SumAmounts({t \in store.transactions :
                                    /\ t.transaction_type = ty
                                    /\ t.transaction_date.year = year
                                    /\ t.transaction_date.month = month
                                    /\ t.transaction_date.day <= n})
    IN  Total("INCOME") - Total("EXPENSE")

\* C18: a pass emits the POSITIVE_TREND alert iff the savings of the days 1
\* to d of the current month, d the current day of the month, exceed the
\* savings of the days 1 to d of the previous month, and these are positive.
SameDayCountWindow ==
    (Generated /\ last.pass.ran >= 6) =>
        \E d \in {sys_date} : \E p \in {AddMonths(Date(sys_date.year, sys_date.month, 1), -1)} :
        \E current \in {SavingsOfDays(d.year, d.month, d.day)} :
        \E previous \in {SavingsOfDays(p.year, p.month, d.day)} :
            Len(AlertsOfType(last.pass.produced, "POSITIVE_TREND"))
                = IF current > previous /\ previous > 0 THEN 1 ELSE 0

\* the priority the rule table of spec 4.8 gives an alert type
TablePriority(type) ==
    CASE type = "SPENDING_LIMIT_EXCEEDED" -> "HIGH"
      [] type = "SPENDING_LIMIT_WARNING" -> "MEDIUM"
      [] type = "GOAL_DEADLINE_APPROACHING" -> "HIGH"
      [] type = "GOAL_BEHIND_SCHEDULE" -> "MEDIUM"
      [] type = "LOW_BALANCE_PROJECTION" -> "HIGH"
      [] type = "UNUSUAL_SPENDING" -> "MEDIUM"
      [] type = "BILL_REMINDER" -> "LOW"
      [] type = "POSITIVE_TREND" -> "LOW"

\* C19: every alert a pass produces has the priority the rule table gives
\* its type, and the summary computed after a pass counts 0 critical alerts.
PriorityOfTheRuleTable ==
    /\ Generated =>
          \E produced \in {last.pass.produced} :
              \A k \in 1..Len(produced) :
                  produced[k].priority = TablePriority(produced[k].alert_type)
    /\ Summarised => last.response.summary.by_priority.critical = 0

\* a summary after a pass that produced alerts of all eight types
SummaryOfEveryType ==
    /\ Summarised
    /\ {last.pass.produced[k].alert_type : k \in 1..Len(last.pass.produced)} = AlertType

-----------------------------------------------------------------------------
(* Properties of the analyzers' projection methods *)

\* the last call was calculate_savings_capacity of financial_analysis.py
Projected == last.op = "calculate_savings_capacity"

\* the schedule of spec 4.2: monthly and weekly items occur in every month,
\* a yearly item in the month of its start date, any other item never
OccursInMonth(r, month) ==
    \/ r.frequency \in {"monthly", "weekly"}
    \/ r.frequency = "yearly" /\ r.start_date.month = month

\* the recurring amount of a month and a type: the amounts of the active
\* rows of the type whose window holds the first of the month and that
\* occur in the month
RecurringAmount(ty, year, month) ==
    SumSeq([i \in 1..Len(store.recurring) |->
              IF \E r \in {store.recurring[i]} :
                    /\ r.is_active
                    /\ r.transaction_type = ty
                    /\ DateLeq(r.start_date, Date(year, month, 1))
                    /\ (r.end_date = NullDate
                           \/ DateLeq(Date(year, month, 1), r.end_date))
                    /\ OccursInMonth(r, month)
              THEN store.recurring[i].amount ELSE 0])

\* C11: _should_occur_in_month answers true for a yearly item exactly when
\* the month is the month of its start_date, whatever the year; true for a
\* monthly and for a weekly item; false for any other frequency.  The
\* recurring amount of each projected month is the sum over the items in
\* window that occur by this rule.
YearlyInStartMonthOnly ==
    /\ last.op = "_should_occur_in_month"
          => (last.result <=> OccursInMonth(last.item, last.month))
    /\ Projected =>
          /\ \A i \in 1..Len(last.expense_projections) :
                \E v \in {last.expense_projections[i].value} :
                    v.recurring_expenses = RecurringAmount("EXPENSE", v.year, v.month)
          /\ \A i \in 1..Len(last.income_projections) :
                \E v \in {last.income_projections[i].value} :
                    v.recurring_income = RecurringAmount("INCOME", v.year, v.month)

\* the evaluator answered true for a yearly item that started in a March,
\* asked about March of next year
YearlyItemInItsMonth ==
    /\ last.op = "_should_occur_in_month"
    /\ last.item.frequency = "yearly"
    /\ last.item.start_date.month = 3
    /\ last.month = 3
    /\ last.year = today.year + 1
    /\ last.result

\* the last call was calculate_savings_capacity of financial_analysis_simple.py
SimplyProjected == last.op = "simple.calculate_savings_capacity"

\* C22: the recurring amount behind a projected month's income or expenses
\* is the sum of the amounts of exactly the recurring items that are active,
\* of the type, in window for the month and scheduled in it; in the
\* projections of financial_analysis.py, which report it, and in those of
\* financial_analysis_simple.py, which report the greater of it and the
\* historical average.
RecurringAmountOfTheMonth ==
    /\ Projected =>
          /\ \A i \in 1..Len(last.expense_projections) :
                \E v \in {last.expense_projections[i].value} :
                    RecurringAmount("EXPENSE", v.year, v.month) = v.recurring_expenses
          /\ \A i \in 1..Len(last.income_projections) :
                \E v \in {last.income_projections[i].value} :
                    RecurringAmount("INCOME", v.year, v.month) = v.recurring_income
    /\ SimplyProjected =>
          \A i \in 1..Len(last.result) :
              \E v \in {last.result[i].value} :
                  /\ v.projected_expenses
                        = FMax(SimpleHistoricalAverage(store, last.at, "EXPENSE"),
                               Num(RecurringAmount("EXPENSE", v.year, v.month)))
                  /\ v.projected_income
                        = FMax(SimpleHistoricalAverage(store, last.at, "INCOME"),
                               Num(RecurringAmount("INCOME", v.year, v.month)))

\* the total of a type in one calendar month, and whether the month has rows
TotalOfMonth(ty, year, month) ==
    SumAmounts({t \in store.transactions :
                   /\ t.transaction_type = ty
                   /\ t.transaction_date.year = year
                   /\ t.transaction_date.month = month})
HasData(ty, year, month) ==
    \E t \in store.transactions :
        /\ t.transaction_type = ty
        /\ t.transaction_date.year = year
        /\ t.transaction_date.month = month

\* the mean of the month's total over those of the 3 years before the target
\* month that have data for it, as the pair of its sum and count
StatedHistory(ty, year, month) ==
    LET years == {y \in (year - 3)..(year - 1) : HasData(ty, y, month)}
    IN [sum |-> SumSeq([k \in 1..3 |->
                          IF (year - k) \in years
                          THEN TotalOfMonth(ty, year - k, month) ELSE 0]),
        count |-> Cardinality(years)]

\* C24: the historicalAverage of a projected month is the mean of that
\* calendar month's total over those of the 3 years before the target month
\* that have data for it, and 0 when none of them has.
HistoryOfThePrecedingYears ==
    Projected =>
        /\ \A i \in 1..Len(last.expense_projections) :
              \E v \in {last.expense_projections[i].value} :
              \E h \in {StatedHistory("EXPENSE", v.year, v.month)} :
                  v.historical_average
                      = IF h.count = 0 THEN Num(0) ELSE Frac(h.sum, h.count)
        /\ \A i \in 1..Len(last.income_projections) :
              \E v \in {last.income_projections[i].value} :
              \E h \in {StatedHistory("INCOME", v.year, v.month)} :
                  v.historical_average
                      = IF h.count = 0 THEN Num(0) ELSE Frac(h.sum, h.count)

\* the same, for the target months of the analyzer's current year
HistoryWithinTheYear ==
    Projected =>
        \A i \in 1..Len(last.expense_projections) :
            \E v \in {last.expense_projections[i].value} :
            \E h \in {StatedHistory("EXPENSE", v.year, v.month)} :
                v.year = last.at.year =>
                    v.historical_average
                        = IF h.count = 0 THEN Num(0) ELSE Frac(h.sum, h.count)

\* the two blend policies of spec 4.3
BlendAdditive(recurring, historical) ==
    IF recurring > 0 THEN FAdd(Num(recurring), FMul(historical, Frac(3, 10)))
    ELSE historical
BlendMax(recurring, historical) == FMax(Num(recurring), historical)

\* every month of the two projections of the last call is blended by (a)
AllAdditive ==
    /\ \A i \in 1..Len(last.expense_projections) :
          \E v \in {last.expense_projections[i].value} :
              v.projected_total = BlendAdditive(v.recurring_expenses, v.historical_average)
    /\ \A i \in 1..Len(last.income_projections) :
          \E v \in {last.income_projections[i].value} :
              v.projected_total = BlendAdditive(v.recurring_income, v.historical_average)

\* every month of the two projections of the last call is blended by (b)
AllMax ==
    /\ \A i \in 1..Len(last.expense_projections) :
          \E v \in {last.expense_projections[i].value} :
              v.projected_total = BlendMax(v.recurring_expenses, v.historical_average)
    /\ \A i \in 1..Len(last.income_projections) :
          \E v \in {last.income_projections[i].value} :
              v.projected_total = BlendMax(v.recurring_income, v.historical_average)

\* C12: the expense projection and the income projection of a call blend
\* the recurring amount and the historical average by one policy: both by
\* recurring + 0.3 * historical (historical when recurring is 0), or both by
\* max(recurring, historical).
OneBlendPolicy == Projected => (AllAdditive \/ AllMax)

\* the digit a character stands for
DigitValue(c) == CHOOSE n \in 0..9 : Digit(n) = c

\* k is "YYYY-MM" for the year y and the month m
IsYearMonth(k, y, m) ==
    /\ Len(k) = 7
    /\ k[5] = "-"
    /\ \A j \in {1, 2, 3, 4, 6, 7} : \E n \in 0..9 : Digit(n) = k[j]
    /\ DigitValue(k[1]) * 1000 + DigitValue(k[2]) * 100
           + DigitValue(k[3]) * 10 + DigitValue(k[4]) = y
    /\ DigitValue(k[6]) * 10 + DigitValue(k[7]) = m

\* the n-th month after the month of d, as <<year, month>>
MonthAfter(d, n) ==
    <<(d.year * 12 + d.month - 1 + n) \div 12,
      ((d.year * 12 + d.month - 1 + n) % 12) + 1>>

\* the last call computed a savings capacity, by either analyzer
SavingsComputed ==
    last.op \in {"calculate_savings_capacity", "simple.calculate_savings_capacity"}

\* the keys of a dict
KeysOf(d) == {d[i].key : i \in 1..Len(d)}

\* C20: the savings capacity for N months has N entries, the i-th keyed
\* "YYYY-MM" for the i-th month after the current month; in each,
\* projected_savings = projected_income - projected_expenses, and
\* savings_rate = projected_savings / projected_income * 100 when the income
\* is positive, else 0.  The income and the expense projection that
\* financial_analysis.py joins have the same keys, and the entry of a key
\* takes its income and its expenses from their entries of that key.
SavingsPerProjectedMonth ==
    /\ SavingsComputed =>
          \E sc \in {last.result} :
              /\ Len(sc) = last.months
              /\ \A i \in 1..Len(sc) :
                    \E v \in {sc[i].value} : \E ym \in {MonthAfter(last.at, i)} :
                        /\ IsYearMonth(sc[i].key, ym[1], ym[2])
                        /\ v.year = ym[1]
                        /\ v.projected_savings
                               = FSub(v.projected_income, v.projected_expenses)
                        /\ IF FPos(v.projected_income)
                           THEN FMul(v.savings_rate, v.projected_income)
                                    = FMul(v.projected_savings, Num(100))
                           ELSE v.savings_rate = Num(0)
    /\ Projected =>
          \E sc \in {last.result} :
          \E e \in {last.expense_projections} : \E inc \in {last.income_projections} :
              /\ KeysOf(e) = KeysOf(inc)
              /\ KeysOf(sc) = KeysOf(e)
              /\ Cardinality(KeysOf(e)) = last.months
              /\ \A i \in 1..Len(sc) : \A j \in 1..Len(e) : \A k \in 1..Len(inc) :
                    (e[j].key = sc[i].key /\ inc[k].key = sc[i].key) =>
                        /\ sc[i].value.projected_income = inc[k].value.projected_total
                        /\ sc[i].value.projected_expenses = e[j].value.projected_total

\* a projection of MaxMonths months with a month of positive income and
\* positive savings rate and a month without income, in deficit, of rate 0
SavingsWithAndWithoutIncome ==
    /\ Projected
    /\ last.months = MaxMonths
    /\ \E i, j \in 1..Len(last.result) :
          /\ FPos(last.result[i].value.projected_income)
          /\ FPos(last.result[i].value.savings_rate)
          /\ last.result[j].value.projected_income = Num(0)
          /\ FLess(last.result[j].value.projected_savings, Num(0))
          /\ last.result[j].value.savings_rate = Num(0)

-----------------------------------------------------------------------------
(* Properties of the goal reports of the two analyzers *)

\* the last call was analyze_goals_progress
GoalsAnalysed == last.op = "analyze_goals_progress"

\* the active goal of the store an entry of a report is about
GoalOfEntry(e) ==
    CHOOSE g \in {store.goals[i] : i \in 1..Len(store.goals)} :
        g.id = e.id /\ g.is_active

\* C21: analyze_goals_progress marks a goal achievable iff its monthly
\* savings needed is at most the mean of projected_savings over the months
\* of the horizon, a goal that has reached its target like any other.
AchievableByTheMean ==
    GoalsAnalysed =>
        \E capacity \in {<<>> \o CalculateSavingsCapacity(store, last.at, 3)} :
        \E total \in {FSum([k \in 1..Len(capacity) |->
                               capacity[k].value.projected_savings])} :
            /\ Len(last.result) = Len(ActiveGoals(store))
            /\ \A i \in 1..Len(last.result) :
                  last.result[i].is_achievable
                      <=> FLeq(FMul(Num(Len(capacity)),
                                    last.result[i].monthly_savings_needed),
                               total)

\* a goal that has reached its target is reported not achievable, the mean
\* of the projected savings being negative
ReachedGoalNotAchievable ==
    /\ GoalsAnalysed
    /\ \E i \in 1..Len(last.result) :
          /\ last.result[i].amount_needed <= 0
          /\ ~last.result[i].is_achievable
          /\ FLess(last.result[i].avg_monthly_savings_capacity, Num(0))

\* the last call was get_dashboard_data
DashboardServed == last.op = "get_dashboard_data"

\* months remaining and the monthly amount needed, as stated: for a goal due
\* in days days with amount still to save, max(0, days / 30.44) and
\* amount / months when months > 0, else amount
StatedMonths(days) == IF days > 0 THEN Frac(days * 25, 761) ELSE Num(0)
StatedMonthly(amount, days) ==
    IF days > 0 THEN Frac(amount * 761, days * 25) ELSE Num(amount)

\* C23: each report of months remaining is max(0, daysRemaining / 30.44), 0
\* for a goal overdue or due today and below 1 for one due in fewer than 31
\* days, and the monthly amount needed is (target - current) / monthsRemaining
\* when monthsRemaining > 0 and the full remaining amount otherwise; in
\* analyze_goals_progress (which rounds the months it reports to one
\* decimal) and in get_goals_progress.
MonthsRemainingFromZero ==
    /\ GoalsAnalysed =>
          \A i \in 1..Len(last.result) :
              \E e \in {last.result[i]} :
              \E g \in {GoalOfEntry(last.result[i])} :
              \E days \in {ToOrdinal(GoalOfEntry(last.result[i]).target_date)
                               - ToOrdinal(last.at)} :
                  /\ e.months_remaining = Round1(StatedMonths(days))
                  /\ e.monthly_savings_needed
                        = StatedMonthly(g.target_amount - g.current_amount, days)
    /\ DashboardServed =>
          \A i \in 1..Len(last.result.goals_progress) :
              \E e \in {last.result.goals_progress[i]} :
              \E g \in {GoalOfEntry(last.result.goals_progress[i])} :
              \E days \in {ToOrdinal(GoalOfEntry(last.result.goals_progress[i]).target_date)
                               - ToOrdinal(last.at)} :
                  /\ e.months_remaining = StatedMonths(days)
                  /\ e.monthly_needed
                        = StatedMonthly(g.target_amount - g.current_amount, days)

\* the same, of get_goals_progress alone
DashboardMonthsFromZero ==
    DashboardServed =>
        \A i \in 1..Len(last.result.goals_progress) :
            \E e \in {last.result.goals_progress[i]} :
            \E g \in {GoalOfEntry(last.result.goals_progress[i])} :
            \E days \in {ToOrdinal(GoalOfEntry(last.result.goals_progress[i]).target_date)
                             - ToOrdinal(last.at)} :
                /\ e.months_remaining = StatedMonths(days)
                /\ e.monthly_needed
                      = StatedMonthly(g.target_amount - g.current_amount, days)

-----------------------------------------------------------------------------
(* Properties of the health scores of the two analyzers *)

\* the limits of the month of a date, and those of them that the expenses of
\* their category, from the first of the month to the date, do not exceed
LimitsAt(d) ==
    {i \in 1..Len(store.limits) : store.limits[i].month_year = MonthKey(d.year, d.month)}
NotExceededAt(d) ==
    {i \in LimitsAt(d) :
        SumAmounts({t \in store.transactions :
                       /\ t.transaction_type = "EXPENSE"
                       /\ t.category_id = store.limits[i].category_id
                       /\ t.transaction_date.year = d.year
                       /\ t.transaction_date.month = d.month
                       /\ t.transaction_date.day <= d.day})
            <= store.limits[i].monthly_limit}

\* the factor as stated, for a weight: the share of the limits not
\* exceeded times the weight; any value strictly between 0 and the weight
\* when there is no limit
DisciplineAsStated(factor, weight, d) ==
    IF LimitsAt(d) = {}
    THEN FPos(factor) /\ FLess(factor, Num(weight))
    ELSE factor = Frac(Cardinality(NotExceededAt(d)) * weight, Cardinality(LimitsAt(d)))

\* C26: the spending-discipline factor of the health score is the number of
\* current-month limits not exceeded over the number of limits, times the
\* factor's weight, and a fixed value strictly between 0 and the weight
\* when no limits are defined; in get_financial_health_score and in
\* calculate_health_score.
DisciplineIsTheShareWithinLimits ==
    /\ last.op = "get_financial_health_score" =>
          DisciplineAsStated(last.result.score_factors.spending_discipline,
                             HealthWeights.spending_discipline, last.at)
    /\ DashboardServed =>
          DisciplineAsStated(last.result.health_score.score_factors.spending_discipline,
                             SimpleHealthWeights.spending_discipline, last.at)

\* the same, of calculate_health_score alone
SimpleDisciplineIsTheShare ==
    DashboardServed =>
        DisciplineAsStated(last.result.health_score.score_factors.spending_discipline,
                           SimpleHealthWeights.spending_discipline, last.at)

-----------------------------------------------------------------------------
(* Properties of the read marks *)

\* the positions of the alerts of a list that are read
ReadIn(l) == {k \in 1..Len(l) : l[k].is_read}

\* the step is a call of mark_alert_as_read
Marks == MarkAlertRead

\* C27: mark_alert_as_read(i) with 0 <= i < len(alerts) sets is_read of the
\* alert at position i and changes nothing else; with i out of range it
\* raises no error and changes nothing; a second call with the same i
\* changes nothing; the unread count decreases by at most 1 per call.
MarkReadFrame ==
    [][Marks =>
         /\ Len(alerts') = Len(alerts)
         /\ \A k \in 1..Len(alerts) :
               alerts'[k] = IF k = last'.index + 1
                            THEN [alert_type |-> alerts[k].alert_type,
                                  priority |-> alerts[k].priority,
                                  title |-> alerts[k].title,
                                  data |-> alerts[k].data,
                                  action_url |-> alerts[k].action_url,
                                  is_read |-> TRUE]
                            ELSE alerts[k]
         /\ (last'.index < 0 \/ last'.index >= Len(alerts)) => alerts' = alerts
         /\ last'.response.code = 200
         /\ (last.op = "mark_alert_read" /\ last.index = last'.index)
               => alerts' = alerts
         /\ Cardinality(ReadIn(alerts')) - Cardinality(ReadIn(alerts)) \in {0, 1}
         /\ <<today, store, sys_date, req>>' = <<today, store, sys_date, req>>
    ]_vars

\* the first alert of a list of several was marked read, and only it
FirstAlertMarked ==
    /\ last.op = "mark_alert_read"
    /\ last.index = 0
    /\ Len(alerts) > 1
    /\ ReadIn(alerts) = {1}

\* the facts of a summary s of a list l
SummaryAdds(s, l) ==
    /\ s.total = s.by_priority.critical + s.by_priority.high
                    + s.by_priority.medium + s.by_priority.low
    /\ 0 <= s.unread
    /\ s.unread <= s.total
    /\ s.unread = s.total - Cardinality(ReadIn(l))
    /\ Len(l) = s.total

\* C28: after any sequence of passes, read marks and test-alert injections,
\* get_alerts_summary has total = critical + high + medium + low,
\* 0 <= unread <= total, len(alerts) = total, and unread = total minus the
\* number of alerts marked read since the list was last replaced: a call
\* that replaces the list leaves no alert read, a mark adds the alert at its
\* index to the read ones, and the summary counts the others.
SummaryCountsTheList ==
    [][/\ GetAlertsSummaryCall => SummaryAdds(last'.result, alerts)
       /\ (GetAlerts /\ "summary" \in DOMAIN last'.response)
             => SummaryAdds(last'.response.summary, alerts')
       /\ (GetAlerts \/ GenerateTestAlerts) => ReadIn(alerts') = {}
       /\ MarkAlertRead
             => ReadIn(alerts') = ReadIn(alerts)
                                    \cup ({last'.index + 1} \cap (1..Len(alerts)))
    ]_vars

\* a summary of the three test alerts, the first of them marked read
SummaryAfterMark ==
    /\ last.op = "get_alerts_summary()"
    /\ last.result.total = 3
    /\ last.result.unread = 2
    /\ ReadIn(alerts) = {1}

\* C29: when a client lists the alerts and then marks index i as read, the
\* alert whose is_read becomes true is the alert the client saw at index i:
\* it has its type and its title, whatever was served in between.
MarkReachesTheAlertSeen ==
    (last.op = "mark_alert_read" /\ "seen" \in DOMAIN last) =>
        \A k \in 1..Len(alerts) :
            (alerts[k].is_read /\ ~last.before[k].is_read) =>
                /\ AlertTypeValue(alerts[k].alert_type) = last.seen.type
                /\ alerts[k].title = last.seen.title

-----------------------------------------------------------------------------
(* Properties of the import *)

\* the last call was an import
Imported == last.op = "import_transactions_from_file"

\* C30: after _process_transactions over a list of rows,
\* successful_imports + failed_imports = total_rows and the error list has
\* one entry per failed row; every row is processed, whatever the rows
\* before it did: it has its error or its transaction; every transaction
\* added has an amount >= 0 and a type; when the commit fails nothing is
\* stored and the import reports failure.
ImportAccountsForEveryRow ==
    Imported =>
        \E r \in {last.results} :
            /\ r.total_rows = Len(last.data)
            /\ r.successful_imports + r.failed_imports = r.total_rows
            /\ Len(r.errors) = r.failed_imports
            /\ Len(r.added) = r.successful_imports
            /\ \A k \in 1..Len(last.data) :
                  Cardinality({i \in 1..Len(r.errors) : r.errors[i].row = k + 1})
                    + Cardinality({i \in 1..Len(r.added) : r.added[i].row = k + 1})
                    = 1
            /\ \A i \in 1..Len(r.added) :
                  /\ r.added[i].transaction.amount.num >= 0
                  /\ r.added[i].transaction.amount.den > 0
                  /\ r.added[i].transaction.transaction_type \in {"INCOME", "EXPENSE"}
            /\ IF last.committed
               THEN /\ last.response.success
                    /\ store.transactions
                          = last.before \cup {r.added[i].transaction : i \in 1..Len(r.added)}
               ELSE /\ ~last.response.success
                    /\ last.rolled_back
                    /\ store.transactions = last.before

\* a file whose first row fails and whose second row, a negative amount
\* typed as an expense, is stored with its amount made positive
RowAfterAFailedRow ==
    /\ Imported
    /\ last.committed
    /\ last.results.total_rows = 2
    /\ last.results.errors = <<[row |-> 2, error |-> "Data invalida"]>>
    /\ \E t \in store.transactions :
          /\ t.transaction_type = "EXPENSE"
          /\ t.amount = Frac(501, 2)
          /\ t.transaction_date = Date(2025, 1, 16)

=============================================================================
